---- MODULE Spec2Model ----
(***************************************************************************)
(* Model of the YAMO MCP server (src/src/index.ts, class YamoMcpServer):   *)
(* the submit handler with its continuity cache (latestContentHash), the   *)
(* parent resolver, the secure file materializer and the validators.       *)
(*                                                                         *)
(* A JavaScript string is written as a TLA+ string; Chars gives its        *)
(* characters, and the regular expressions, split() and startsWith() of    *)
(* the source are computed on them character by character.  A digest of    *)
(* 64 equal hex digits c is written "0x" followed by c and "*64".          *)
(* null/undefined is the value Null.                                       *)
(*                                                                         *)
(* Every tool invocation occupies a slot i \in Inv.  An action is the code *)
(* a handler runs between two suspension points (await): Node.js runs that *)
(* code without interruption, and other invocations run only while the     *)
(* handler is suspended.                                                   *)
(***************************************************************************)
EXTENDS Integers, Sequences, FiniteSets, TLC

\* Number of invocations the host transport may have in flight at once.
MaxInv == 2

Inv == 1..MaxInv

\* ---------------------------------------------------------------- strings

\* null / undefined
Null == "null"

\* A value that is not a string (a number in a FileInput's content).
NotAString == "number"

Rep(c, n) == [k \in 1..n |-> c]

\* {64} of BYTES32_PATTERN
HexLen == 64

\* {40} of ETH_ADDRESS_PATTERN
AddrLen == 40

\* "0x" followed by 64 copies of the hex digit c
Hex(c) == <<"0", "x">> \o Rep(c, HexLen)

GENESIS_HASH == "0x0*64"
H1 == "0xa*64"
H2 == "0xB*64"
H3 == "0xc*64"

\* H1 with its hex digits in upper case, and H2 with them in lower case
H1U == "0xA*64"
H2L == "0xb*64"

\* The characters of each string the model uses.
Chars(s) ==
  CASE s = GENESIS_HASH -> Hex("0")
    [] s = H1 -> Hex("a")
    [] s = H2 -> Hex("B")
    [] s = H3 -> Hex("c")
    [] s = H1U -> Hex("A")
    [] s = H2L -> Hex("b")
    [] s = "" -> <<>>
    [] s = "a_b" -> <<"a", "_", "b">>
    [] s = "ab" -> <<"a", "b">>
    [] s = "sha256:ab" -> <<"s", "h", "a", "2", "5", "6", ":", "a", "b">>
    [] s = "Y" -> <<"Y">>
    [] s = "Qm" -> <<"Q", "m">>
    [] s = "t" -> <<"t">>
    [] s = "g" -> <<"g">>
    [] s = "hi" -> <<"h", "i">>
    [] s = "/w" -> <<"/", "w">>
    [] s = "/w/f" -> <<"/", "w", "/", "f">>
    [] s = "/e/p" -> <<"/", "e", "/", "p">>
    [] s = "/w-o/f" -> <<"/", "w", "-", "o", "/", "f">>
    [] s = "/w/../e/p" -> <<"/", "w", "/", ".", ".", "/", "e", "/", "p">>
    [] s = "/w/l" -> <<"/", "w", "/", "l">>
    [] s = "/w/i" -> <<"/", "w", "/", "i">>
    [] s = "/w/d" -> <<"/", "w", "/", "d">>
    [] s = "/w/s" -> <<"/", "w", "/", "s">>
    [] s = "/w/k" -> <<"/", "w", "/", "k">>
    [] s = "/w/s/f" -> <<"/", "w", "/", "s", "/", "f">>
    [] s = "/w/k/f" -> <<"/", "w", "/", "k", "/", "f">>
    [] s = "/w/t/f" -> <<"/", "w", "/", "t", "/", "f">>
    [] s = "/e/f" -> <<"/", "e", "/", "f">>
    [] s = "/w/n" -> <<"/", "w", "/", "n">>
    [] s = "in" -> <<"i", "n">>
    [] s = "out" -> <<"o", "u", "t">>
    [] s = "sib" -> <<"s", "i", "b">>
    [] s = "tin" -> <<"t", "i", "n">>
    [] s = "tout" -> <<"t", "o", "u", "t">>
    [] s = "0x" -> <<"0", "x">>
    [] s = "0xsha256:ab" -> <<"0", "x", "s", "h", "a", "2", "5", "6", ":", "a", "b">>
    [] s = "a*64" -> Rep("a", HexLen)
    [] s = "Z" -> <<"Z">>
    [] s = "k" -> <<"k">>
    [] s = "is encrypted" -> <<"i", "s", " ", "e", "n", "c", "r", "y", "p", "t", "e", "d">>
    [] s = "Decryption failed" -> <<"D", "e", "c", "r", "y", "p", "t", "i", "o", "n", " ", "f", "a", "i", "l", "e", "d">>
    [] s = "bad decrypt" -> <<"b", "a", "d", " ", "d", "e", "c", "r", "y", "p", "t">>
    [] s = "not found on-chain" -> <<"n", "o", "t", " ", "f", "o", "u", "n", "d", " ", "o", "n", "-", "c", "h", "a", "i", "n">>
    [] s = "timeout" -> <<"t", "i", "m", "e", "o", "u", "t">>
    [] s = "encrypted" -> <<"e", "n", "c", "r", "y", "p", "t", "e", "d">>
    [] s = "decrypt" -> <<"d", "e", "c", "r", "y", "p", "t">>
    [] s = "0xa*63" -> <<"0", "x">> \o Rep("a", HexLen - 1)
    [] s = "0xa*65" -> <<"0", "x">> \o Rep("a", HexLen + 1)
    [] s = "0xaB*32" -> <<"0", "x">> \o [k \in 1..HexLen |-> IF k % 2 = 1 THEN "a" ELSE "B"]
    [] s = "0xg*64" -> Hex("g")
    [] s = "0Xa*64" -> <<"0", "X">> \o Rep("a", HexLen)
    [] s = "sha256:a*64" -> <<"s", "h", "a", "2", "5", "6", ":">> \o Rep("a", HexLen)
    [] s = "0xa*64z" -> Hex("a") \o <<"z">>
    [] s = "z0xa*64" -> <<"z">> \o Hex("a")
    [] s = "0xa*32 a*31" -> <<"0", "x">> \o [k \in 1..HexLen |-> IF k = 33 THEN " " ELSE "a"]
    [] s = "0xa*40" -> <<"0", "x">> \o Rep("a", AddrLen)
    [] s = "0xaB*20" -> <<"0", "x">> \o [k \in 1..AddrLen |-> IF k % 2 = 1 THEN "a" ELSE "B"]
    [] s = "0xa*39" -> <<"0", "x">> \o Rep("a", AddrLen - 1)
    [] s = "0xa*41" -> <<"0", "x">> \o Rep("a", AddrLen + 1)
    [] s = "a*40" -> Rep("a", AddrLen)
    [] s = "0xg*40" -> <<"0", "x">> \o Rep("g", AddrLen)
    [] s = "rpc" -> <<"r", "p", "c">>
    [] s = "claude" -> <<"c", "l", "a", "u", "d", "e">>
    [] s = "_" -> <<"_">>
    [] s = "a_" -> <<"a", "_">>
    [] s = "_b" -> <<"_", "b">>
    [] s = "a_b_c" -> <<"a", "_", "b", "_", "c">>
    [] s = "a__b" -> <<"a", "_", "_", "b">>

\* JavaScript truthiness of a string-or-null value: null and "" are falsy.
Truthy(v) == v # Null /\ Chars(v) # <<>>

HexChars ==
  {"0", "1", "2", "3", "4", "5", "6", "7", "8", "9",
   "a", "b", "c", "d", "e", "f", "A", "B", "C", "D", "E", "F"}

\* BYTES32_PATTERN without the anchor at the end: /^0x[a-fA-F0-9]{64}/
BYTES32_PATTERN_Open(v) ==
  /\ Len(v) >= HexLen + 2
  /\ v[1] = "0"
  /\ v[2] = "x"
  /\ \A k \in 3..(HexLen + 2) : v[k] \in HexChars

\* /^0x[a-fA-F0-9]{64}$/ on the characters v
BYTES32_PATTERN(v) ==
  /\ Len(v) = HexLen + 2
  /\ v[1] = "0"
  /\ v[2] = "x"
  /\ \A k \in 3..Len(v) : v[k] \in HexChars

\* Mutant of validateBytes32: any string passes.
validateBytes32AnyString(value) == value # Null

\* validateBytes32: TRUE when it returns, FALSE when it throws (value.match
\* of undefined throws a TypeError, which is an error all the same).
validateBytes32(value) == value # Null /\ BYTES32_PATTERN(Chars(value))

\* /^0x[a-fA-F0-9]{40}$/ on the characters v
ETH_ADDRESS_PATTERN(v) ==
  /\ Len(v) = AddrLen + 2
  /\ v[1] = "0"
  /\ v[2] = "x"
  /\ \A k \in 3..Len(v) : v[k] \in HexChars

\* validateEthereumAddress: TRUE when it returns, FALSE when it throws.
validateEthereumAddress(address) ==
  Truthy(address) /\ ETH_ADDRESS_PATTERN(Chars(address))

\* process.env: a variable that is not set is null.
NoEnv == [CONTRACT_ADDRESS |-> Null, RPC_URL |-> Null, PRIVATE_KEY |-> Null]

\* requiredEnvVars.filter(v => !process.env[v])
missing(env) == {v \in DOMAIN env : ~Truthy(env[v])}

\* validateEnvironment without the test of the signing key
validateEnvironmentNoKeyTest(env) ==
  IF missing(env) \ {"PRIVATE_KEY"} # {} THEN "Missing required environment variables"
  ELSE IF ~validateEthereumAddress(env.CONTRACT_ADDRESS)
         THEN "CONTRACT_ADDRESS must be a valid Ethereum address"
  ELSE ""

\* validateEnvironment: the message of the error it throws, "" when it returns
validateEnvironment(env) ==
  IF missing(env) # {} THEN "Missing required environment variables"
  ELSE IF ~validateEthereumAddress(env.CONTRACT_ADDRESS)
         THEN "CONTRACT_ADDRESS must be a valid Ethereum address"
  ELSE ""

\* blockId.split('_').length
SplitCount(v) == 1 + Cardinality({k \in 1..Len(v) : v[k] = "_"})

\* validateBlockId: TRUE when it returns, FALSE when it throws.
validateBlockId(blockId) ==
  /\ Truthy(blockId)
  /\ SplitCount(Chars(blockId)) >= 2

\* String.prototype.startsWith
startsWith(s, p) ==
  LET cs == Chars(s)
      cp == Chars(p)
  IN  Len(cp) <= Len(cs) /\ SubSeq(cs, 1, Len(cp)) = cp

\* String.prototype.includes
includes(s, p) ==
  LET cs == Chars(s)
      cp == Chars(p)
  IN  \E k \in 0..(Len(cs) - Len(cp)) : SubSeq(cs, k + 1, k + Len(cp)) = cp

\* The digests the model writes, and the one whose characters are cs.
Digests == {GENESIS_HASH, H1, H2, H3, H1U, H2L}

Intern(cs) == CHOOSE d \in Digests : Chars(d) = cs

\* One hex digit in lower case
LowerHex(c) ==
  CASE c = "A" -> "a" [] c = "B" -> "b" [] c = "C" -> "c"
    [] c = "D" -> "d" [] c = "E" -> "e" [] c = "F" -> "f"
    [] OTHER -> c

\* A digest with its hex digits in lower case, as a bytes32 value is printed.
LowerCase(d) == Intern([k \in 1..Len(Chars(d)) |-> LowerHex(Chars(d)[k])])

\* crypto.createHash("sha256").update(text).digest("hex"): 64 hex digits in
\* lower case.  The digest of each payload of the model is 64 times one digit.
Sha256Digit(text) ==
  CASE text = "Y" -> "a"
    [] text = "Z" -> "c"

digestHex(text) == Rep(Sha256Digit(text), HexLen)

\* ------------------------------------------------------------- filesystem

\* process.cwd(), the allowed root
CWD == "/w"

\* What the operating system answers for each path string.
\*   exists : fs.existsSync (follows symbolic links: FALSE for a dangling one)
\*   link   : fs.lstatSync(p).isSymbolicLink() (the last component is a link)
\*   real   : fs.realpathSync (every link resolved, "." and ".." removed)
\*   text   : the text of the regular file at that location
\* The links: /w/l -> /e/p, /w/i -> /w/f, /w/d -> nothing, /w/s -> /e,
\* /w/k -> /w/t.  /w-o is a sibling of the root whose name extends the root's.
Entry(p, exists, link, real, text) ==
  [path |-> p, exists |-> exists, link |-> link, real |-> real, text |-> text]

FileSystem ==
  { Entry("/w", TRUE, FALSE, "/w", Null),
    Entry("/w/f", TRUE, FALSE, "/w/f", "in"),
    Entry("/e/p", TRUE, FALSE, "/e/p", "out"),
    Entry("/w-o/f", TRUE, FALSE, "/w-o/f", "sib"),
    Entry("/w/../e/p", TRUE, FALSE, "/e/p", "out"),
    Entry("/w/l", TRUE, TRUE, "/e/p", "out"),
    Entry("/w/i", TRUE, TRUE, "/w/f", "in"),
    Entry("/w/d", FALSE, TRUE, Null, Null),
    Entry("/w/s/f", TRUE, FALSE, "/e/f", "tout"),
    Entry("/w/k/f", TRUE, FALSE, "/w/t/f", "tin"),
    Entry("/w/t/f", TRUE, FALSE, "/w/t/f", "tin"),
    Entry("/e/f", TRUE, FALSE, "/e/f", "tout") }

\* The symbolic links of the file system, directories among them.
Links == {"/w/l", "/w/i", "/w/d", "/w/s", "/w/k"}

Known(p) == \E e \in FileSystem : e.path = p

Lookup(p) == CHOOSE e \in FileSystem : e.path = p

existsSync(p) == Known(p) /\ Lookup(p).exists

\* Null when realpathSync throws (ENOENT)
realpathSync(p) == IF existsSync(p) THEN Lookup(p).real ELSE Null

isSymbolicLink(p) == Known(p) /\ Lookup(p).link

\* readFile(real, 'utf8')
FileText(real) == Lookup(real).text

\* validateFileSecurity: "ok" when it returns, else the message it throws.
validateFileSecurity(filePath) ==
  LET realPath == realpathSync(filePath)
      allowedDir == realpathSync(CWD)
  IN  IF realPath = Null THEN "ENOENT"
      ELSE IF isSymbolicLink(filePath) THEN "Symbolic links are not allowed"
      ELSE IF ~startsWith(realPath, allowedDir)
           THEN "File path outside allowed directory"
      ELSE "ok"

FileInput(name, content) == [name |-> name, content |-> content]

\* processSingleFile up to its await: what becomes of one FileInput.
\*   literal : returned unchanged
\*   read    : readFile(realpathSync(content)) has been started on `path`
\*   throw   : the promise is rejected with `error`
\* Mutant of processSingleFile: every string is taken for a path
\* (the fs.existsSync test is left out).
processSingleFileNoExistsTest(file) ==
  IF file.content # NotAString
  THEN LET v == validateFileSecurity(file.content)
       IN  IF v # "ok"
           THEN [kind |-> "throw", name |-> file.name, content |-> file.content,
                 error |-> v, path |-> Null]
           ELSE [kind |-> "read", name |-> file.name, content |-> file.content,
                 error |-> "", path |-> realpathSync(file.content)]
  ELSE [kind |-> "literal", name |-> file.name, content |-> file.content,
        error |-> "", path |-> Null]

processSingleFile(file) ==
  IF file.content # NotAString /\ existsSync(file.content)
  THEN LET v == validateFileSecurity(file.content)
       IN  IF v # "ok"
           THEN [kind |-> "throw", name |-> file.name, content |-> file.content,
                 error |-> v, path |-> Null]
           ELSE [kind |-> "read", name |-> file.name, content |-> file.content,
                 error |-> "", path |-> realpathSync(file.content)]
  ELSE [kind |-> "literal", name |-> file.name, content |-> file.content,
        error |-> "", path |-> Null]

\* Mutant of Materialized: a file that was read keeps its path as content.
MaterializedKeepsPath(o) == FileInput(o.name, o.content)

\* The FileInput a processed file resolves to once its read has completed.
Materialized(o) ==
  IF o.kind = "read" THEN FileInput(o.name, FileText(o.path))
  ELSE FileInput(o.name, o.content)

\* ------------------------------------------------------------------ state

VARIABLES
  latestContentHash,  \* YamoMcpServer.latestContentHash, the continuity cache
  inv,                \* inv[i]: the invocation running in slot i, and what it did
  lastAccepted,       \* history: contentHash of the submission confirmed last
  entryCache          \* history, kept when invocations run one at a time:
                      \* the cache when the latest request arrived

vars == <<latestContentHash, inv, lastAccepted, entryCache>>

\* A digest with an algorithm prefix ("sha256:ab"), as the error message warns.
BadHash == "sha256:ab"

GoodId == "a_b"
BadId == "ab"

Body == "Y"

\* The content reference ipfs.upload answers with.
Cid == "Qm"

FName == "t"
GName == "g"

\* The files argument: absent (undefined), or an array of FileInputs.
NoFiles == [given |-> FALSE, items |-> <<>>]

Files(items) == [given |-> TRUE, items |-> items]

NoArgs ==
  [blockId |-> Null, previousBlock |-> Null, contentHash |-> Null,
   content |-> Null, files |-> NoFiles]

NoCall == [blockId |-> Null, parent |-> Null, contentHash |-> Null, cid |-> Null]

NoResult ==
  [success |-> FALSE, error |-> "", contentHash |-> Null,
   previousBlock |-> Null, ipfsCID |-> Null]

\* A field that a JSON envelope does not have.
Absent == "absent"

\* What chain.getBlock answers: null, or a RawBlock (of which the audit reads
\* contentHash and ipfsCID).
NoBlock == [found |-> FALSE, contentHash |-> Null, ipfsCID |-> Null]

RawBlock(contentHash, ipfsCID) ==
  [found |-> TRUE, contentHash |-> contentHash, ipfsCID |-> ipfsCID]

\* The envelope of handleAuditBlock: isError, and of the JSON text the
\* fields verified ("true", "false" or Null), onChainHash, computedHash,
\* contentPreview (the payload, shorter than 500 characters), errorType and
\* error.
NoAudit ==
  [isError |-> FALSE, verified |-> Absent, onChainHash |-> Absent,
   computedHash |-> Absent, contentPreview |-> Absent, errorType |-> Absent,
   error |-> Absent]

\* A free slot.  pc is the await the handler is suspended at:
\*   files  : Promise.all of the processSingleFile promises  (line 964)
\*   latest : chain.getLatestBlockHash()                     (line 941)
\*   upload : ipfs.upload                                    (line 973)
\*   submit : chain.submitBlock                              (line 981)
\*   wait   : tx.wait()                                      (line 982)
\*   done   : the handler has returned; result is the envelope
\* The other fields record what the invocation has done so far:
\*   processed the outcome of processSingleFile for each file
\*   reads     the locations handed to readFile
\*   queried   number of chain.getLatestBlockHash calls;  answer: what it
\*             answered
\*   uploads   number of ipfs.upload calls;  bundle: the files uploaded
\*   submits   number of chain.submitBlock calls;  call: its arguments
\*   confirmed tx.wait() has resolved
\*   wroteOwn  updateLatestBlockCache(contentHash) has run
\*   wroteLatest the resolver has stored the ledger's latest hash
\* The arguments of contract.verifyBlock, and its answer ("true" or "false")
NoVerifyCall == [blockId |-> Null, hashBytes |-> Null, answer |-> Null]

\* The envelope of the get, get-latest and verify handlers: isError, of the
\* JSON text the fields success ("true" or "false"), error and block, and
\* the text of a createTextResponse.
NoReply ==
  [isError |-> FALSE, success |-> Absent, error |-> Absent, text |-> Absent,
   block |-> NoBlock]

\* For the other tools:
\*   getBlock  : chain.getBlock / chain.getLatestBlock      (lines 1004, 1022)
\*   verify    : contract.verifyBlock                        (line 1114)
\*   lookups   number of chain.getBlock / getLatestBlock calls
\*   vcalls    number of contract.verifyBlock calls;  vcall: its arguments
\*   reply     the envelope the handler returned
\* For an audit (yamo_audit_block):
\*   getBlock : chain.getBlock(blockId)                      (line 1041)
\*   download : ipfs.downloadBundle                          (line 1064)
\*   key       the encryptionKey argument
\*   block     what chain.getBlock answered
\*   downloads number of ipfs.downloadBundle calls
\*   audit     the envelope the audit handler returned
\* For a construction of the server (new YamoMcpServer):
\*   env       process.env at the time
\*   handlers  setupHandlers has registered the request handlers
IdleSlot ==
  [pc |-> "idle", tool |-> Null, args |-> NoArgs, processed |-> <<>>,
   reads |-> {}, resolved |-> Null, queried |-> 0, answer |-> Null, uploads |-> 0,
   bundle |-> NoFiles, submits |-> 0, call |-> NoCall, confirmed |-> FALSE,
   wroteOwn |-> FALSE, wroteLatest |-> FALSE, result |-> NoResult,
   key |-> Null, block |-> NoBlock, downloads |-> 0, audit |-> NoAudit,
   lookups |-> 0, vcalls |-> 0, vcall |-> NoVerifyCall, reply |-> NoReply,
   env |-> NoEnv, handlers |-> FALSE]

Init ==
  /\ latestContentHash = Null
  /\ inv = [i \in Inv |-> IdleSlot]
  /\ lastAccepted = Null
  /\ entryCache = Null

\* A step of a handler works on st = [s: its slot, cache, last].

\* Mutant of Throw: the error leaves the dispatcher, no envelope is made.
ThrowUncaught(st, message) == [st EXCEPT !.s.pc = "done"]

\* The catch of the CallToolRequest handler: createErrorResponse(...)
Throw(st, message) ==
  [st EXCEPT !.s.pc = "done",
             !.s.result = [NoResult EXCEPT !.error = message]]

\* updateLatestBlockCache
updateLatestBlockCache(st, contentHash) ==
  [st EXCEPT !.cache = contentHash, !.s.wroteOwn = TRUE]

\* handleSubmitBlock, line 981: the call of chain.submitBlock
CallSubmitBlock(st, ipfsCID) ==
  [st EXCEPT !.s.pc = "submit",
             !.s.submits = @ + 1,
             !.s.call = [blockId |-> st.s.args.blockId,
                         parent |-> st.s.resolved,
                         contentHash |-> st.s.args.contentHash,
                         cid |-> ipfsCID]]

\* Mutant of AfterResolve: the bundle is uploaded when content or files are
\* given.
AfterResolveUploadsFiles(st, parent) ==
  LET st1 == [st EXCEPT !.s.resolved = parent]
  IN  IF Truthy(st.s.args.content) \/ st.s.args.files.given
      THEN [st1 EXCEPT !.s.pc = "upload",
                       !.s.uploads = @ + 1,
                       !.s.bundle = IF ~st.s.args.files.given THEN NoFiles
                                    ELSE Files([k \in 1..Len(st.s.processed) |->
                                                  Materialized(st.s.processed[k])])]
      ELSE CallSubmitBlock(st1, Null)

\* handleSubmitBlock, lines 970-981, entered with the resolved parent: upload
\* when content is given, otherwise go on to chain.submitBlock.
AfterResolve(st, parent) ==
  LET st1 == [st EXCEPT !.s.resolved = parent]
  IN  IF Truthy(st.s.args.content)
      THEN [st1 EXCEPT !.s.pc = "upload",
                       !.s.uploads = @ + 1,
                       !.s.bundle = IF ~st.s.args.files.given THEN NoFiles
                                    ELSE Files([k \in 1..Len(st.s.processed) |->
                                                  Materialized(st.s.processed[k])])]
      ELSE CallSubmitBlock(st1, Null)

\* Mutant of resolvePreviousBlock: the cache is consulted before the parent
\* the caller supplied.
resolvePreviousBlockCacheFirst(st) ==
  IF Truthy(st.cache) THEN AfterResolve(st, st.cache)
  ELSE IF Truthy(st.s.args.previousBlock)
       THEN AfterResolve(st, st.s.args.previousBlock)
  ELSE [st EXCEPT !.s.pc = "latest", !.s.queried = @ + 1]

\* Mutant of resolvePreviousBlock: the cache is not consulted, the ledger is
\* asked every time (the code before the chain continuation fix).
resolvePreviousBlockNoCache(st) ==
  IF Truthy(st.s.args.previousBlock) THEN AfterResolve(st, st.s.args.previousBlock)
  ELSE [st EXCEPT !.s.pc = "latest", !.s.queried = @ + 1]

\* resolvePreviousBlock up to its await (lines 931-941).  The handler's own
\* await of the returned promise reads no shared state when it resumes, so
\* the code after it is run in the same step.
resolvePreviousBlock(st) ==
  IF Truthy(st.s.args.previousBlock) THEN AfterResolve(st, st.s.args.previousBlock)
  ELSE IF Truthy(st.cache) THEN AfterResolve(st, st.cache)
  ELSE [st EXCEPT !.s.pc = "latest", !.s.queried = @ + 1]

\* Mutant of resolveFromLedger: the test against GENESIS_HASH is dropped, so
\* the all-zero digest is cached like any other.
resolveFromLedgerCachesGenesis(st, latestHash) ==
  IF Truthy(latestHash)
  THEN AfterResolve([st EXCEPT !.cache = latestHash, !.s.wroteLatest = TRUE],
                    latestHash)
  ELSE AfterResolve(st, GENESIS_HASH)

\* Mutant of resolveFromLedger: the ledger's hash is returned but not stored.
resolveFromLedgerNoStore(st, latestHash) ==
  IF Truthy(latestHash) /\ latestHash # GENESIS_HASH
  THEN AfterResolve(st, latestHash)
  ELSE AfterResolve(st, GENESIS_HASH)

\* Mutant of resolveFromLedger: the test `latestHash &&` is dropped, so an
\* absent answer is returned as the parent.
resolveFromLedgerNoNullTest(st, latestHash) ==
  IF latestHash # GENESIS_HASH
  THEN AfterResolve([st EXCEPT !.cache = latestHash, !.s.wroteLatest = TRUE],
                    latestHash)
  ELSE AfterResolve(st, GENESIS_HASH)

\* Mutant of resolveFromLedger: a resolution gives way when another
\* invocation has filled the cache during the await.
resolveFromLedgerGivesWay(st, latestHash) ==
  IF st.cache # Null THEN Throw(st, "resolution in progress")
  ELSE IF Truthy(latestHash) /\ latestHash # GENESIS_HASH
  THEN AfterResolve([st EXCEPT !.cache = latestHash, !.s.wroteLatest = TRUE],
                    latestHash)
  ELSE AfterResolve(st, GENESIS_HASH)

\* resolvePreviousBlock resumed with the answer of getLatestBlockHash
\* (lines 942-949).
resolveFromLedger(st, latestHash) ==
  IF Truthy(latestHash) /\ latestHash # GENESIS_HASH
  THEN AfterResolve([st EXCEPT !.cache = latestHash, !.s.wroteLatest = TRUE],
                    latestHash)
  ELSE AfterResolve(st, GENESIS_HASH)

\* handleSubmitBlock from its entry to its first await (lines 953-968).
\* files.map runs every processSingleFile up to its await, also after one of
\* them has thrown.
submitEntry(st) ==
  LET a == st.s.args
  IN  IF ~validateBlockId(a.blockId) THEN Throw(st, "blockId must follow format")
      ELSE IF ~validateBytes32(a.contentHash) THEN Throw(st, "contentHash must be a valid bytes32 hash")
      ELSE IF Truthy(a.previousBlock) /\ ~validateBytes32(a.previousBlock)
           THEN Throw(st, "previousBlock must be a valid bytes32 hash")
      ELSE IF a.files.given
           THEN LET out == [k \in 1..Len(a.files.items) |->
                              processSingleFile(a.files.items[k])]
                IN  [st EXCEPT !.s.pc = "files",
                               !.s.processed = out,
                               !.s.reads = {out[k].path : k \in {j \in 1..Len(out) : out[j].kind = "read"}}]
           ELSE resolvePreviousBlock(st)

\* Mutant of filesSettled: rejected promises are ignored (Promise.allSettled
\* in place of Promise.all).
filesSettledIgnoringRejections(st, readOk) == resolvePreviousBlock(st)

\* Promise.all has settled (line 964): rejected with the error of the first
\* file that threw, or with a read error, else fulfilled.
filesSettled(st, readOk) ==
  LET out == st.s.processed
      bad == {k \in 1..Len(out) : out[k].kind = "throw"}
  IN  IF bad # {}
      THEN Throw(st, out[CHOOSE k \in bad : \A j \in bad : k <= j].error)
      ELSE IF ~readOk /\ st.s.reads # {} THEN Throw(st, "read failed")
      ELSE resolvePreviousBlock(st)

\* Mutant of uploadSettled: a failed upload is tried again.
uploadSettledRetry(st, ok) ==
  IF ok THEN CallSubmitBlock(st, Cid) ELSE [st EXCEPT !.s.uploads = @ + 1]

\* ipfs.upload has settled (lines 973-981).
uploadSettled(st, ok) ==
  IF ok THEN CallSubmitBlock(st, Cid) ELSE Throw(st, "upload failed")

\* Mutant of submitSettled: the cache is updated as soon as submitBlock has
\* returned the transaction, without awaiting tx.wait().
submitSettledNoWait(st, ok) ==
  IF ok
  THEN updateLatestBlockCache([st EXCEPT !.s.pc = "wait"], st.s.args.contentHash)
  ELSE Throw(st, "submitBlock failed")

\* chain.submitBlock has settled (lines 981-982): tx.wait() is called.
submitSettled(st, ok) ==
  IF ok THEN [st EXCEPT !.s.pc = "wait"] ELSE Throw(st, "submitBlock failed")

\* Mutant of waitSettled: the cache is updated whether or not tx.wait()
\* succeeded (the update placed in a finally block).
waitSettledAlways(st, ok) ==
  IF ok
  THEN LET st1 == updateLatestBlockCache(
                    [st EXCEPT !.s.confirmed = TRUE,
                               !.last = st.s.args.contentHash],
                    st.s.args.contentHash)
       IN  [st1 EXCEPT !.s.pc = "done",
                       !.s.result = [success |-> TRUE, error |-> "",
                                     contentHash |-> st.s.args.contentHash,
                                     previousBlock |-> st.s.resolved,
                                     ipfsCID |-> st.s.call.cid]]
  ELSE Throw(updateLatestBlockCache(st, st.s.args.contentHash),
             "transaction failed")

\* Mutant of waitSettled: the success path forgets updateLatestBlockCache.
waitSettledNoUpdate(st, ok) ==
  IF ok
  THEN [st EXCEPT !.s.confirmed = TRUE,
                  !.last = st.s.args.contentHash,
                  !.s.pc = "done",
                  !.s.result = [success |-> TRUE, error |-> "",
                                contentHash |-> st.s.args.contentHash,
                                previousBlock |-> st.s.resolved,
                                ipfsCID |-> st.s.call.cid]]
  ELSE Throw(st, "transaction failed")

\* Mutant of waitSettled: the cache is updated with the parent the block was
\* submitted with, not with the block's own contentHash.
waitSettledCachesParent(st, ok) ==
  IF ok
  THEN LET st1 == updateLatestBlockCache(
                    [st EXCEPT !.s.confirmed = TRUE,
                               !.last = st.s.args.contentHash],
                    st.s.resolved)
       IN  [st1 EXCEPT !.s.pc = "done",
                       !.s.result = [success |-> TRUE, error |-> "",
                                     contentHash |-> st.s.args.contentHash,
                                     previousBlock |-> st.s.resolved,
                                     ipfsCID |-> st.s.call.cid]]
  ELSE Throw(st, "transaction failed")

\* tx.wait() has settled (lines 982-999).
waitSettled(st, ok) ==
  IF ok
  THEN LET st1 == updateLatestBlockCache(
                    [st EXCEPT !.s.confirmed = TRUE,
                               !.last = st.s.args.contentHash],
                    st.s.args.contentHash)
       IN  [st1 EXCEPT !.s.pc = "done",
                       !.s.result = [success |-> TRUE, error |-> "",
                                     contentHash |-> st.s.args.contentHash,
                                     previousBlock |-> st.s.resolved,
                                     ipfsCID |-> st.s.call.cid]]
  ELSE Throw(st, "transaction failed")

\* handleAuditBlock from its entry to the await of chain.getBlock
\* (lines 1039-1041).
auditEntry(st) == [st EXCEPT !.s.pc = "getBlock"]

\* Mutant of getBlockSettled: a block without ipfsCID is reported as not
\* verified.
getBlockSettledNoCidFalse(st, block) ==
  LET st1 == [st EXCEPT !.s.block = block, !.s.pc = "done"]
  IN  IF ~block.found
      THEN [st1 EXCEPT !.s.audit = [NoAudit EXCEPT !.isError = TRUE,
                                                   !.verified = "false",
                                                   !.error = "Block not found on-chain"]]
      ELSE [st1 EXCEPT !.s.audit = [NoAudit EXCEPT !.verified = "false",
                                                   !.onChainHash = block.contentHash]]

\* Mutant of getBlockSettled: the test `!block` is dropped, so an absent
\* block goes on to the download.
getBlockSettledNoFoundTest(st, block) ==
  LET st1 == [st EXCEPT !.s.block = block]
  IN  IF block.found /\ ~Truthy(block.ipfsCID)
      THEN [st1 EXCEPT !.s.pc = "done",
                       !.s.audit = [NoAudit EXCEPT !.verified = Null,
                                                   !.onChainHash = block.contentHash]]
      ELSE [st1 EXCEPT !.s.pc = "download", !.s.downloads = @ + 1]

\* chain.getBlock has answered (lines 1041-1064): the two early returns, or
\* the call of ipfs.downloadBundle.
getBlockSettled(st, block) ==
  LET st1 == [st EXCEPT !.s.block = block]
  IN  IF ~block.found
      THEN [st1 EXCEPT !.s.pc = "done",
                       !.s.audit = [NoAudit EXCEPT !.isError = TRUE,
                                                   !.verified = "false",
                                                   !.error = "Block not found on-chain"]]
      ELSE IF ~Truthy(block.ipfsCID)
      THEN [st1 EXCEPT !.s.pc = "done",
                       !.s.audit = [NoAudit EXCEPT !.verified = Null,
                                                   !.onChainHash = block.contentHash]]
      ELSE [st1 EXCEPT !.s.pc = "download", !.s.downloads = @ + 1]

\* Mutant of downloadSettled: the digests are compared as 32-byte values,
\* whatever the case of their hex digits.
downloadSettledAnyCase(st, payload) ==
  LET computedHash == Intern(<<"0", "x">> \o digestHex(payload))
      verified == computedHash = LowerCase(st.s.block.contentHash)
  IN  [st EXCEPT !.s.pc = "done",
                 !.s.audit = [NoAudit EXCEPT !.verified = IF verified THEN "true" ELSE "false",
                                             !.onChainHash = st.s.block.contentHash,
                                             !.computedHash = computedHash,
                                             !.contentPreview = payload]]

\* Mutant of downloadSettled: a downloaded bundle counts as verified.
downloadSettledAlwaysTrue(st, payload) ==
  LET computedHash == Intern(<<"0", "x">> \o digestHex(payload))
  IN  [st EXCEPT !.s.pc = "done",
                 !.s.audit = [NoAudit EXCEPT !.verified = "true",
                                             !.onChainHash = st.s.block.contentHash,
                                             !.computedHash = computedHash,
                                             !.contentPreview = payload]]

\* Mutant of downloadSettled: the audit stores the hash it computed in the
\* continuity cache.
downloadSettledCachesHash(st, payload) ==
  LET computedHash == Intern(<<"0", "x">> \o digestHex(payload))
      verified == computedHash = st.s.block.contentHash
  IN  [st EXCEPT !.cache = computedHash,
                 !.s.pc = "done",
                 !.s.audit = [NoAudit EXCEPT !.verified = IF verified THEN "true" ELSE "false",
                                             !.onChainHash = st.s.block.contentHash,
                                             !.computedHash = computedHash,
                                             !.contentPreview = payload]]

\* ipfs.downloadBundle has resolved with bundle.block = payload
\* (lines 1064-1083).
downloadSettled(st, payload) ==
  LET computedHash == Intern(<<"0", "x">> \o digestHex(payload))
      verified == computedHash = st.s.block.contentHash
  IN  [st EXCEPT !.s.pc = "done",
                 !.s.audit = [NoAudit EXCEPT !.verified = IF verified THEN "true" ELSE "false",
                                             !.onChainHash = st.s.block.contentHash,
                                             !.computedHash = computedHash,
                                             !.contentPreview = payload]]

\* ipfs.downloadBundle has been rejected with errorMessage (lines 1084-1107).
downloadFailed(st, errorMessage) ==
  LET errorType ==
        IF includes(errorMessage, "encrypted") /\ ~Truthy(st.s.key)
        THEN "missing_key"
        ELSE IF includes(errorMessage, "Decryption failed")
                  \/ includes(errorMessage, "decrypt")
        THEN "decryption_failed"
        ELSE IF includes(errorMessage, "not found on-chain")
        THEN "block_not_found"
        ELSE "unknown"
  IN  [st EXCEPT !.s.pc = "done",
                 !.s.audit = [NoAudit EXCEPT !.isError = TRUE,
                                             !.verified = "false",
                                             !.error = errorMessage,
                                             !.errorType = errorType]]

\* formatBlockResponse: of the fields the model keeps, ipfsCID || null
formatBlockResponse(block) ==
  RawBlock(block.contentHash, IF Truthy(block.ipfsCID) THEN block.ipfsCID ELSE Null)

\* handleGetBlock / handleGetLatestBlock up to the await of the ledger call
\* (lines 1003-1004, 1022).
lookupEntry(st) == [st EXCEPT !.s.pc = "lookup", !.s.lookups = @ + 1]

\* Mutant of lookupSettled: a block that was found is remembered as the
\* latest one.
lookupSettledCaches(st, block, notFound) ==
  IF ~block.found
  THEN [st EXCEPT !.s.pc = "done",
                  !.s.block = block,
                  !.s.reply = [NoReply EXCEPT !.isError = TRUE,
                                              !.success = "false",
                                              !.error = notFound]]
  ELSE [st EXCEPT !.cache = block.contentHash,
                  !.s.pc = "done",
                  !.s.block = block,
                  !.s.reply = [NoReply EXCEPT !.success = "true",
                                              !.block = formatBlockResponse(block)]]

\* chain.getBlock / chain.getLatestBlock has answered (lines 1006-1018,
\* 1024-1035).
lookupSettled(st, block, notFound) ==
  IF ~block.found
  THEN [st EXCEPT !.s.pc = "done",
                  !.s.block = block,
                  !.s.reply = [NoReply EXCEPT !.isError = TRUE,
                                              !.success = "false",
                                              !.error = notFound]]
  ELSE [st EXCEPT !.s.pc = "done",
                  !.s.block = block,
                  !.s.reply = [NoReply EXCEPT !.success = "true",
                                              !.block = formatBlockResponse(block)]]

\* The strings handleVerifyBlock may pass as hashBytes.
HashBytes == Digests \cup {"0xsha256:ab"}

\* `0x${contentHash}`
Prefixed(contentHash) ==
  CHOOSE h \in HashBytes : Chars(h) = <<"0", "x">> \o Chars(contentHash)

\* Mutant of verifyEntry: the digest is passed on as it was supplied.
verifyEntryNoPrefix(st) ==
  LET contentHash == st.s.args.contentHash
  IN  IF contentHash = Null THEN Throw(st, "TypeError")
      ELSE [st EXCEPT !.s.pc = "verify",
                      !.s.vcalls = @ + 1,
                      !.s.vcall = [NoVerifyCall EXCEPT
                                     !.blockId = st.s.args.blockId,
                                     !.hashBytes = contentHash]]

\* handleVerifyBlock up to the await of contract.verifyBlock
\* (lines 1111-1114).  contentHash.startsWith of undefined throws a TypeError.
verifyEntry(st) ==
  LET contentHash == st.s.args.contentHash
  IN  IF contentHash = Null THEN Throw(st, "TypeError")
      ELSE [st EXCEPT !.s.pc = "verify",
                      !.s.vcalls = @ + 1,
                      !.s.vcall = [NoVerifyCall EXCEPT
                                     !.blockId = st.s.args.blockId,
                                     !.hashBytes = IF startsWith(contentHash, "0x")
                                                   THEN contentHash
                                                   ELSE Prefixed(contentHash)]]

\* Mutant of verifySettled: the answer is reported inverted.
verifySettledInverted(st, isValid) ==
  [st EXCEPT !.s.pc = "done",
             !.s.vcall.answer = IF isValid THEN "true" ELSE "false",
             !.s.reply = [NoReply EXCEPT !.text = IF isValid THEN "FAILED"
                                                  ELSE "VERIFIED"]]

\* contract.verifyBlock has answered (line 1116).
verifySettled(st, isValid) ==
  [st EXCEPT !.s.pc = "done",
             !.s.vcall.answer = IF isValid THEN "true" ELSE "false",
             !.s.reply = [NoReply EXCEPT !.text = IF isValid THEN "VERIFIED"
                                                  ELSE "FAILED"]]

\* ---------------------------------------------------------------- actions

St(i) == [s |-> inv[i], cache |-> latestContentHash, last |-> lastAccepted]

Apply(i, st) ==
  /\ inv' = [inv EXCEPT ![i] = st.s]
  /\ latestContentHash' = st.cache
  /\ lastAccepted' = st.last

\* A step of an invocation already running.
Resume(i, st) == Apply(i, st) /\ UNCHANGED entryCache

\* What a FileInput's content may be: each path of the file system, a path
\* at which nothing exists, a text that is no path, and a number.
FileContents ==
  {e.path : e \in FileSystem} \cup {"/w/n", "hi", NotAString}

\* The files argument: absent, empty, one file of each kind, and the pairs
\* of a file in the root with any other.
FileLists ==
  {NoFiles, Files(<<>>)}
    \cup {Files(<<FileInput(FName, c)>>) : c \in FileContents}
    \cup {Files(<<FileInput(FName, c), FileInput(GName, "/w/f")>>) : c \in FileContents}
    \cup {Files(<<FileInput(GName, "/w/t/f"), FileInput(FName, c)>>) : c \in FileContents}

\* The arguments a caller may send to yamo_submit_block.
SubmitInputs ==
  [blockId : {GoodId, BadId},
   previousBlock : {Null, "", H3, BadHash},
   contentHash : {H1, H2, BadHash},
   content : {Null, "", Body},
   files : FileLists]

\* What chain.getLatestBlockHash() may answer: the chain is shared with other
\* agents, so the answer is not determined by this process.
LedgerAnswers == {Null, GENESIS_HASH, H3}

\* The requests that overlapping invocations are run with: every way a
\* submission can end, without every combination of the arguments.
Plain(h) ==
  [blockId |-> GoodId, previousBlock |-> Null, contentHash |-> h,
   content |-> Null, files |-> NoFiles]

OverlapInputs ==
  { Plain(H1),
    [Plain(H1) EXCEPT !.previousBlock = H3],
    [Plain(H2) EXCEPT !.content = Body,
                      !.files = Files(<<FileInput(FName, "/w/f")>>)],
    [Plain(H1) EXCEPT !.contentHash = BadHash] }

\* A yamo_submit_block request arrives and runs to its first await.
\* The slots are interchangeable: a request takes the lowest free one.
Request(i, a) ==
  /\ inv[i].pc = "idle"
  /\ \A j \in 1..(i - 1) : inv[j].pc # "idle"
  /\ Apply(i, submitEntry([St(i) EXCEPT !.s.args = a,
                                        !.s.tool = "yamo_submit_block"]))

Submit(i) ==
  /\ \E a \in OverlapInputs : Request(i, a)
  /\ UNCHANGED entryCache

FilesSettled(i) ==
  /\ inv[i].pc = "files"
  /\ \E readOk \in BOOLEAN : Resume(i, filesSettled(St(i), readOk))

LatestSettled(i) ==
  /\ inv[i].pc = "latest"
  /\ \E h \in LedgerAnswers :
       Resume(i, resolveFromLedger([St(i) EXCEPT !.s.answer = h], h))

LatestFailed(i) ==
  /\ inv[i].pc = "latest"
  /\ Resume(i, Throw(St(i), "getLatestBlockHash failed"))

UploadSettled(i) ==
  /\ inv[i].pc = "upload"
  /\ \E ok \in BOOLEAN : Resume(i, uploadSettled(St(i), ok))

SubmitSettled(i) ==
  /\ inv[i].pc = "submit"
  /\ \E ok \in BOOLEAN : Resume(i, submitSettled(St(i), ok))

WaitSettled(i) ==
  /\ inv[i].pc = "wait"
  /\ \E ok \in BOOLEAN : Resume(i, waitSettled(St(i), ok))

\* The transport has sent the envelope; the slot is free for the next request.
Respond(i) ==
  /\ inv[i].pc = "done"
  /\ inv' = [inv EXCEPT ![i] = IdleSlot]
  /\ UNCHANGED <<latestContentHash, lastAccepted, entryCache>>

Next ==
  \E i \in Inv :
    \/ Submit(i)
    \/ FilesSettled(i)
    \/ LatestSettled(i)
    \/ LatestFailed(i)
    \/ UploadSettled(i)
    \/ SubmitSettled(i)
    \/ WaitSettled(i)
    \/ Respond(i)

Spec == Init /\ [][Next]_vars

\* Invocations run one at a time: a request arrives only when no other
\* invocation is in flight.
Alone(i) == \A j \in Inv \ {i} : inv[j].pc = "idle"

SubmitAlone(i) ==
  /\ Alone(i)
  /\ \E a \in SubmitInputs : Request(i, a)
  /\ entryCache' = latestContentHash

NextSeq ==
  \E i \in Inv :
    \/ SubmitAlone(i)
    \/ FilesSettled(i)
    \/ LatestSettled(i)
    \/ LatestFailed(i)
    \/ UploadSettled(i)
    \/ SubmitSettled(i)
    \/ WaitSettled(i)
    \/ Respond(i)

SpecSeq == Init /\ [][NextSeq]_vars

\* Invocations run one at a time and their envelopes stay in the slots until
\* the transport sends them all: the occupied slots are then the invocations
\* in the order in which they ran.
LogInputs == OverlapInputs \cup {Plain(H2)}

SubmitNext(i) ==
  /\ \A j \in Inv \ {i} : inv[j].pc \in {"idle", "done"}
  /\ \E a \in LogInputs : Request(i, a)
  /\ UNCHANGED entryCache

RespondAll ==
  /\ \A i \in Inv : inv[i].pc \in {"idle", "done"}
  /\ \E i \in Inv : inv[i].pc = "done"
  /\ inv' = [i \in Inv |-> IdleSlot]
  /\ UNCHANGED <<latestContentHash, lastAccepted, entryCache>>

NextLog ==
  \/ \E i \in Inv :
       \/ SubmitNext(i)
       \/ FilesSettled(i)
       \/ LatestSettled(i)
       \/ LatestFailed(i)
       \/ UploadSettled(i)
       \/ SubmitSettled(i)
       \/ WaitSettled(i)
  \/ RespondAll

SpecLog == Init /\ [][NextLog]_vars

\* ------------------------------------------------------------------ audit

\* A payload other than Body: what a Content Store that has lost or altered
\* the bundle answers.
Altered == "Z"

Key == "k"

\* The submissions that audits are run after: content with the digest of
\* Body in lower case and in upper case, and a block without content.
AuditedSubmits ==
  { [Plain(H1) EXCEPT !.previousBlock = H3, !.content = Body],
    [Plain(H1U) EXCEPT !.previousBlock = H3, !.content = Body],
    [Plain(H1) EXCEPT !.previousBlock = H3] }

\* What chain.getBlock may answer: the ledger is an external system, and the
\* spelling in which its client prints a digest is the client's.
LedgerBlocks ==
  {NoBlock} \cup {RawBlock(h, c) : h \in {H1, H1U, H3}, c \in {Null, "", Cid}}

\* What bundle.block of a resolved ipfs.downloadBundle may be.
Payloads == {Body, Altered}

\* The messages ipfs.downloadBundle may be rejected with.
DownloadErrors ==
  {"is encrypted", "Decryption failed", "bad decrypt", "not found on-chain",
   "timeout"}

\* No handler is running: every slot is free or holds a finished invocation.
Quiet(i) == \A j \in Inv \ {i} : inv[j].pc \in {"idle", "done"}

SubmitAudited(i) ==
  /\ Quiet(i)
  /\ \E a \in AuditedSubmits : Request(i, a)
  /\ UNCHANGED entryCache

\* A yamo_audit_block request arrives and runs to the await of getBlock.
Audit(i) ==
  /\ Quiet(i)
  /\ inv[i].pc = "idle"
  /\ \A j \in 1..(i - 1) : inv[j].pc # "idle"
  /\ \E key \in {Null, Key} :
       Resume(i, auditEntry([St(i) EXCEPT !.s.tool = "yamo_audit_block",
                                          !.s.args.blockId = GoodId,
                                          !.s.key = key]))

GetBlockSettled(i) ==
  /\ inv[i].pc = "getBlock"
  /\ \E block \in LedgerBlocks : Resume(i, getBlockSettled(St(i), block))

GetBlockFailed(i) ==
  /\ inv[i].pc = "getBlock"
  /\ Resume(i, Throw(St(i), "getBlock failed"))

DownloadSettled(i) ==
  /\ inv[i].pc = "download"
  /\ \E payload \in Payloads : Resume(i, downloadSettled(St(i), payload))

DownloadFailed(i) ==
  /\ inv[i].pc = "download"
  /\ \E errorMessage \in DownloadErrors :
       Resume(i, downloadFailed(St(i), errorMessage))

\* Submissions and audits run one at a time, their envelopes kept in the
\* order in which they ran.
NextAudit ==
  \/ \E i \in Inv :
       \/ SubmitAudited(i)
       \/ UploadSettled(i)
       \/ SubmitSettled(i)
       \/ WaitSettled(i)
       \/ Audit(i)
       \/ GetBlockSettled(i)
       \/ GetBlockFailed(i)
       \/ DownloadSettled(i)
       \/ DownloadFailed(i)
  \/ RespondAll

SpecAudit == Init /\ [][NextAudit]_vars

\* ------------------------------------------------------------------ tools

\* The five operations, requested one at a time, and a request that names
\* no operation of toolHandlers.

\* The submissions: those of LogInputs and one with a file outside the
\* allowed directory.
ToolSubmits ==
  LogInputs \cup {[Plain(H1) EXCEPT !.files = Files(<<FileInput(FName, "/e/p")>>)]}

\* A digest without its "0x"
Bare == "a*64"

\* The contentHash a caller may send to yamo_verify_block.
VerifyHashes == {H1, Bare, BadHash, Null}

\* A request takes the lowest free slot when no other invocation
\* is in flight.
Arrives(i) ==
  /\ Alone(i)
  /\ inv[i].pc = "idle"
  /\ \A j \in 1..(i - 1) : inv[j].pc # "idle"

Called(i, tool) == [St(i) EXCEPT !.s.tool = tool, !.s.args.blockId = GoodId]

SubmitTool(i) ==
  /\ Alone(i)
  /\ \E a \in ToolSubmits : Request(i, a)
  /\ entryCache' = latestContentHash

GetBlock(i) ==
  /\ Arrives(i)
  /\ Resume(i, lookupEntry(Called(i, "yamo_get_block")))

GetLatestBlock(i) ==
  /\ Arrives(i)
  /\ Resume(i, lookupEntry([St(i) EXCEPT !.s.tool = "yamo_get_latest_block"]))

LookupSettled(i) ==
  /\ inv[i].pc = "lookup"
  /\ \E block \in LedgerBlocks :
       Resume(i, lookupSettled(St(i), block,
                               IF inv[i].tool = "yamo_get_block"
                               THEN "Block not found on-chain"
                               ELSE "No blocks found on-chain"))

LookupFailed(i) ==
  /\ inv[i].pc = "lookup"
  /\ Resume(i, Throw(St(i), "ledger call failed"))

AuditTool(i) == Alone(i) /\ Audit(i)

VerifyBlock(i) ==
  /\ Arrives(i)
  /\ \E h \in VerifyHashes :
       Resume(i, verifyEntry([Called(i, "yamo_verify_block")
                                EXCEPT !.s.args.contentHash = h]))

VerifySettled(i) ==
  /\ inv[i].pc = "verify"
  /\ \E isValid \in BOOLEAN : Resume(i, verifySettled(St(i), isValid))

VerifyFailed(i) ==
  /\ inv[i].pc = "verify"
  /\ Resume(i, Throw(St(i), "verifyBlock failed"))

\* toolHandlers has no entry for the name: the dispatcher throws.
UnknownTool(i) ==
  /\ Arrives(i)
  /\ Resume(i, Throw([St(i) EXCEPT !.s.tool = "yamo_none"], "Unknown tool"))

NextTools ==
  \E i \in Inv :
    \/ SubmitTool(i)
    \/ FilesSettled(i)
    \/ LatestSettled(i)
    \/ LatestFailed(i)
    \/ UploadSettled(i)
    \/ SubmitSettled(i)
    \/ WaitSettled(i)
    \/ GetBlock(i)
    \/ GetLatestBlock(i)
    \/ LookupSettled(i)
    \/ LookupFailed(i)
    \/ AuditTool(i)
    \/ GetBlockSettled(i)
    \/ GetBlockFailed(i)
    \/ DownloadSettled(i)
    \/ DownloadFailed(i)
    \/ VerifyBlock(i)
    \/ VerifySettled(i)
    \/ VerifyFailed(i)
    \/ UnknownTool(i)
    \/ Respond(i)

SpecTools == Init /\ [][NextTools]_vars

\* ------------------------------------------- a file system that is changed

\* The canonical locations of the regular files.
RegularFiles == {e.real : e \in {f \in FileSystem : f.exists /\ f.text # Null}}

\* processSingleFile, lines 922-924, when another actor changes the file
\* system after validateFileSecurity has returned: the second
\* fs.realpathSync(file.content), or the open of readFile, reaches the
\* location real instead of the one that was checked.
retargeted(st, k, real) ==
  LET out == [st.s.processed EXCEPT ![k].path = real]
  IN  [st EXCEPT !.s.processed = out,
                 !.s.reads = {out[j].path : j \in {n \in 1..Len(out) : out[n].kind = "read"}}]

Retargeted(i) ==
  /\ inv[i].pc = "files"
  /\ \E k \in 1..Len(inv[i].processed) : \E real \in RegularFiles :
       /\ inv[i].processed[k].kind = "read"
       /\ inv[i].processed[k].path = realpathSync(inv[i].processed[k].content)
       /\ real # inv[i].processed[k].path
       /\ Resume(i, retargeted(St(i), k, real))

\* Submissions with content and files that pass the check, or are literal.
RaceInputs ==
  {[Plain(H1) EXCEPT !.content = Body, !.files = Files(items)] :
     items \in {<<FileInput(FName, "/w/f")>>,
                <<FileInput(FName, "hi")>>,
                <<FileInput(GName, "/w/t/f"), FileInput(FName, "/w/f")>>}}

SubmitFiles(i) ==
  /\ Alone(i)
  /\ \E a \in RaceInputs : Request(i, a)
  /\ entryCache' = latestContentHash

NextRace ==
  \E i \in Inv :
    \/ SubmitFiles(i)
    \/ Retargeted(i)
    \/ FilesSettled(i)
    \/ LatestSettled(i)
    \/ LatestFailed(i)
    \/ UploadSettled(i)
    \/ SubmitSettled(i)
    \/ WaitSettled(i)
    \/ Respond(i)

SpecRace == Init /\ [][NextRace]_vars

\* ------------------------------------------------- tools beside a submission

\* A request takes the lowest free slot; it may arrive while one submission
\* is in flight, and nothing else is.
Beside(i) ==
  /\ inv[i].pc = "idle"
  /\ \A j \in 1..(i - 1) : inv[j].pc # "idle"
  /\ \A j \in Inv \ {i} : inv[j].pc = "idle" \/ inv[j].tool = "yamo_submit_block"
  /\ \A j, k \in Inv \ {i} : (inv[j].pc # "idle" /\ inv[k].pc # "idle") => j = k

SubmitBeside(i) ==
  /\ Beside(i)
  /\ \E a \in OverlapInputs : Request(i, a)
  /\ UNCHANGED entryCache

GetBlockBeside(i) ==
  /\ Beside(i)
  /\ Resume(i, lookupEntry(Called(i, "yamo_get_block")))

GetLatestBlockBeside(i) ==
  /\ Beside(i)
  /\ Resume(i, lookupEntry([St(i) EXCEPT !.s.tool = "yamo_get_latest_block"]))

AuditBeside(i) ==
  /\ Beside(i)
  /\ \E key \in {Null, Key} :
       Resume(i, auditEntry([Called(i, "yamo_audit_block") EXCEPT !.s.key = key]))

VerifyBlockBeside(i) ==
  /\ Beside(i)
  /\ \E h \in VerifyHashes :
       Resume(i, verifyEntry([Called(i, "yamo_verify_block")
                                EXCEPT !.s.args.contentHash = h]))

UnknownToolBeside(i) ==
  /\ Beside(i)
  /\ Resume(i, Throw([St(i) EXCEPT !.s.tool = "yamo_none"], "Unknown tool"))

\* Mutant of Settles: the server runs one handler at a time, a later
\* invocation resumes only when the earlier ones have returned.
SettlesInTurn(i) ==
  /\ \A j \in 1..(i - 1) : inv[j].pc \in {"idle", "done"}
  /\ \/ FilesSettled(i)
     \/ LatestSettled(i)
     \/ LatestFailed(i)
     \/ UploadSettled(i)
     \/ SubmitSettled(i)
     \/ WaitSettled(i)
     \/ LookupSettled(i)
     \/ LookupFailed(i)
     \/ GetBlockSettled(i)
     \/ GetBlockFailed(i)
     \/ DownloadSettled(i)
     \/ DownloadFailed(i)
     \/ VerifySettled(i)
     \/ VerifyFailed(i)

\* An external call that the invocation in slot i awaits returns or fails.
Settles(i) ==
  \/ FilesSettled(i)
  \/ LatestSettled(i)
  \/ LatestFailed(i)
  \/ UploadSettled(i)
  \/ SubmitSettled(i)
  \/ WaitSettled(i)
  \/ LookupSettled(i)
  \/ LookupFailed(i)
  \/ GetBlockSettled(i)
  \/ GetBlockFailed(i)
  \/ DownloadSettled(i)
  \/ DownloadFailed(i)
  \/ VerifySettled(i)
  \/ VerifyFailed(i)

NextBeside ==
  \E i \in Inv :
    \/ SubmitBeside(i)
    \/ GetBlockBeside(i)
    \/ GetLatestBlockBeside(i)
    \/ AuditBeside(i)
    \/ VerifyBlockBeside(i)
    \/ UnknownToolBeside(i)
    \/ Settles(i)
    \/ Respond(i)

\* Every external call that is awaited returns or fails in the end.
SpecFair ==
  Init /\ [][NextBeside]_vars /\ \A i \in Inv : WF_vars(Settles(i))

\* The external calls of the invocation in the first slot may never return;
\* those of the others return or fail in the end.
SpecSuspended ==
  Init /\ [][NextBeside]_vars /\ \A i \in Inv \ {1} : WF_vars(Settles(i))

\* ------------------------------------------- validation helpers and start-up

\* The validation helpers and the constructor, each called on one input; a
\* slot keeps the name of what was called, its input and its outcome
\* (result.success when it returned, result.error the message it threw).

DigestInputs ==
  {GENESIS_HASH, H1, H2, H1U, H2L, "0xaB*32", "0xa*63", "0xa*65", "0xg*64",
   "0Xa*64", "a*64", "sha256:a*64", "sha256:ab", "0xsha256:ab", "0xa*64z",
   "z0xa*64", "0xa*32 a*31", "0x", "", Null}

BlockIdInputs ==
  {"a_b", "a_b_c", "a__b", "claude", "ab", "_", "a_", "_b", "", Null}

EnvInputs ==
  [CONTRACT_ADDRESS : {"0xa*40", "0xaB*20", "0xa*39", "0xa*41", "a*40",
                       "0xg*40", H1, "", Null},
   RPC_URL : {"rpc", Null},
   PRIVATE_KEY : {"k", "", Null}]

\* The slots are filled in order.
Free(i) ==
  /\ inv[i].pc = "idle"
  /\ \A j \in 1..(i - 1) : inv[j].pc # "idle"

Outcome(slot, message) ==
  [slot EXCEPT !.pc = "done",
               !.result.success = (message = ""),
               !.result.error = message]

ValidateBytes32(i) ==
  /\ Free(i)
  /\ \E value \in DigestInputs :
       inv' = [inv EXCEPT ![i] =
                 Outcome([IdleSlot EXCEPT !.tool = "validateBytes32",
                                          !.args.contentHash = value],
                         IF validateBytes32(value) THEN ""
                         ELSE "must be a valid bytes32 hash")]
  /\ UNCHANGED <<latestContentHash, lastAccepted, entryCache>>

ValidateBlockId(i) ==
  /\ Free(i)
  /\ \E blockId \in BlockIdInputs :
       inv' = [inv EXCEPT ![i] =
                 Outcome([IdleSlot EXCEPT !.tool = "validateBlockId",
                                          !.args.blockId = blockId],
                         IF validateBlockId(blockId) THEN ""
                         ELSE "blockId must follow format")]
  /\ UNCHANGED <<latestContentHash, lastAccepted, entryCache>>

\* constructor: validateEnvironment() comes first, this.setupHandlers() last
constructor(slot) ==
  LET message == validateEnvironment(slot.env)
  IN  [Outcome(slot, message) EXCEPT !.handlers = (message = "")]

Construct(i) ==
  /\ Free(i)
  /\ \E env \in EnvInputs :
       inv' = [inv EXCEPT ![i] =
                 constructor([IdleSlot EXCEPT !.tool = "constructor",
                                              !.env = env])]
  /\ UNCHANGED <<latestContentHash, lastAccepted, entryCache>>

NextValidate ==
  \E i \in Inv :
    \/ ValidateBytes32(i)
    \/ ValidateBlockId(i)
    \/ Construct(i)

SpecValidate == Init /\ [][NextValidate]_vars

\* ----------------------------------------------------------------- claims

Done(i) == inv[i].pc = "done"

Succeeded(i) == Done(i) /\ inv[i].result.success

Failed(i) == Done(i) /\ ~inv[i].result.success

\* The submission reached chain.submitBlock and the call, or the wait for
\* its confirmation, failed.
FailedAtLedger(i) ==
  Failed(i) /\ inv[i].result.error \in {"submitBlock failed", "transaction failed"}

\* The submission failed before chain.submitBlock: in validation, in file
\* materialization, in parent resolution or in the content upload.
FailedEarly(i) == Failed(i) /\ ~FailedAtLedger(i)

\* C1: a submission has written its contentHash into the continuity cache
\* only if tx.wait() has resolved for that same submission; no invocation has
\* written it while its acceptance is pending or has failed.
C1_CacheWriteOnlyAfterConfirmation ==
  \A i \in Inv : inv[i].wroteOwn => inv[i].confirmed

\* C1 witness: a confirmed submission has written the cache while another
\* submission is still waiting for its own confirmation.
C1_Witness ==
  \E i, j \in Inv :
    /\ i # j
    /\ Succeeded(i) /\ inv[i].wroteOwn
    /\ latestContentHash = inv[i].args.contentHash
    /\ inv[j].pc = "wait" /\ ~inv[j].wroteOwn
    /\ inv[j].args.contentHash # inv[i].args.contentHash

\* C2: with invocations run one at a time, a submission that omits
\* previousBlock and is confirmed after an earlier confirmed submission has
\* passed to chain.submitBlock, as parent, the contentHash of the submission
\* confirmed last before it.
C2_SequentialChaining ==
  [][\A i \in Inv :
       ( /\ inv[i].pc = "wait"
         /\ inv'[i].pc = "done" /\ inv'[i].result.success
         /\ ~Truthy(inv[i].args.previousBlock)
         /\ lastAccepted # Null )
       => inv[i].call.parent = lastAccepted]_vars

\* C2 witness: a confirmed submission of H2 without previousBlock whose
\* parent is H1, the contentHash of the submission confirmed before it.
C2_Witness ==
  \E i \in Inv :
    /\ Succeeded(i)
    /\ ~Truthy(inv[i].args.previousBlock)
    /\ inv[i].args.contentHash = H2
    /\ inv[i].call.parent = H1
    /\ inv[i].result.previousBlock = H1
    /\ entryCache = H1

\* C3: once a submission of this process has been confirmed, the continuity
\* cache equals the contentHash of the submission confirmed most recently,
\* under every interleaving.
C3_CacheIsLastAccepted ==
  lastAccepted # Null => latestContentHash = lastAccepted

\* C4 as claimed: after a submission has failed before chain.submitBlock, the
\* cache holds the value it held when the invocation started and the ledger
\* has received no submitBlock call from it (invocations run one at a time).
C4_EarlyFailureLeavesCache ==
  \A i \in Inv :
    FailedEarly(i) => (latestContentHash = entryCache /\ inv[i].submits = 0)

\* C4 amended: after such a failure the ledger has received no submitBlock
\* call from the invocation, and the cache holds the value it held when the
\* invocation started, except after a failed upload of a submission that
\* omitted previousBlock and started with an empty cache: then the cache
\* holds the non-genesis digest the resolver got from getLatestBlockHash.
C4_EarlyFailureAmended ==
  \A i \in Inv :
    FailedEarly(i) =>
      /\ inv[i].submits = 0
      /\ \/ latestContentHash = entryCache
         \/ /\ inv[i].result.error = "upload failed"
            /\ ~Truthy(inv[i].args.previousBlock)
            /\ entryCache = Null
            /\ inv[i].answer # Null /\ inv[i].answer # GENESIS_HASH
            /\ latestContentHash = inv[i].answer

\* C4 witness: an upload has failed after the resolver had stored the
\* ledger's latest hash into the cache that was empty at the start.
C4_Witness ==
  \E i \in Inv :
    /\ FailedEarly(i) /\ inv[i].result.error = "upload failed"
    /\ entryCache = Null /\ latestContentHash = H3
    /\ inv[i].submits = 0

\* C5: a submission whose chain.submitBlock call, or whose wait for the
\* confirmation, failed has returned an error envelope and has not written
\* its contentHash to the cache.
C5_LedgerFailureNoCacheWrite ==
  \A i \in Inv :
    (Done(i) /\ inv[i].submits > 0 /\ ~inv[i].confirmed) =>
      (~inv[i].result.success /\ inv[i].result.error # "" /\ ~inv[i].wroteOwn)

\* C5 witness: tx.wait() has failed for a submission of H2 while the cache
\* holds another digest.
C5_Witness ==
  \E i \in Inv :
    /\ FailedAtLedger(i) /\ inv[i].result.error = "transaction failed"
    /\ inv[i].args.contentHash = H2
    /\ latestContentHash = H1

\* The outcomes of processSingleFile for the files of the invocation in slot i.
Outcomes(i) == {inv[i].processed[k] : k \in 1..Len(inv[i].processed)}

\* What the claims mean by a location inside the allowed root: the root
\* itself, or a location below it (the root's path followed by "/").
InsideRoot(real) ==
  \/ real = CWD
  \/ LET cr == Chars(real)
         cd == Chars(CWD) \o <<"/">>
     IN  Len(cd) <= Len(cr) /\ SubSeq(cr, 1, Len(cd)) = cd

\* C6: a FileInput whose content is an existing path (not itself a symbolic
\* link, the subject of C7) whose canonical location is neither the allowed
\* root nor below it is rejected with the 'outside allowed directory' error
\* and is not read; a sibling of the root whose name extends the root's name
\* is such a location.
C6_OutsideRootRejected ==
  \A i \in Inv : \A o \in Outcomes(i) :
    ( /\ o.content # NotAString
      /\ existsSync(o.content)
      /\ ~isSymbolicLink(o.content)
      /\ ~InsideRoot(realpathSync(o.content)) )
    => (o.kind = "throw" /\ o.error = "File path outside allowed directory")

\* C7: a FileInput whose content names a symbolic link, whatever the link
\* points to, is rejected with the 'Symbolic links are not allowed' error:
\* it is neither read nor passed on as literal payload.
C7_SymlinkRejected ==
  \A i \in Inv : \A o \in Outcomes(i) :
    (o.content # NotAString /\ isSymbolicLink(o.content))
    => (o.kind = "throw" /\ o.error = "Symbolic links are not allowed")

\* C8: when previousBlock is supplied and well-formed, the parent passed to
\* chain.submitBlock and the previousBlock of the success envelope equal it,
\* whatever the cache holds, and getLatestBlockHash is not called.
C8_ExplicitParentWins ==
  \A i \in Inv :
    (inv[i].pc # "idle" /\ Truthy(inv[i].args.previousBlock)
       /\ validateBytes32(inv[i].args.previousBlock))
    => /\ inv[i].queried = 0
       /\ inv[i].submits > 0 => inv[i].call.parent = inv[i].args.previousBlock
       /\ Succeeded(i) => inv[i].result.previousBlock = inv[i].args.previousBlock

\* C8 witness: a submission of H1 with previousBlock H3 has been confirmed
\* with parent H3 in a process that has also confirmed a submission of H2.
C8_Witness ==
  \E i, j \in Inv :
    /\ Succeeded(i)
    /\ inv[i].args.previousBlock = H3
    /\ inv[i].call.parent = H3 /\ inv[i].result.previousBlock = H3
    /\ inv[i].queried = 0
    /\ Succeeded(j) /\ inv[j].args.contentHash = H2
    /\ inv[i].args.contentHash = H1 /\ latestContentHash = H1

\* The step of invocation i in which resolvePreviousBlock is called.
ResolveCalled(i) ==
  /\ inv[i].pc \in {"idle", "files"}
  /\ inv'[i].pc \in {"latest", "upload", "submit"}

\* C9: when previousBlock is omitted and the cache holds a digest,
\* resolvePreviousBlock returns the cached digest and does not call
\* getLatestBlockHash.
C9_CacheFirst ==
  [][\A i \in Inv :
       ( /\ ResolveCalled(i)
         /\ ~Truthy(inv'[i].args.previousBlock)
         /\ Truthy(latestContentHash) )
       => (inv'[i].resolved = latestContentHash /\ inv'[i].queried = 0)]_vars

\* C9 witness: a submission without previousBlock has taken H2 from the
\* cache as its parent without asking the ledger.
C9_Witness ==
  \E i \in Inv :
    /\ inv[i].pc = "submit"
    /\ ~Truthy(inv[i].args.previousBlock)
    /\ inv[i].queried = 0
    /\ inv[i].resolved = H2 /\ inv[i].call.parent = H2
    /\ latestContentHash = H2

\* C10: when previousBlock is omitted, the cache was empty and
\* getLatestBlockHash answers a non-genesis digest, resolvePreviousBlock
\* returns that digest and the cache holds it when the resolver returns.
C10_LedgerFallbackPopulatesCache ==
  [][\A i \in Inv :
       ( /\ inv[i].pc = "latest" /\ inv'[i].pc # "latest"
         /\ Truthy(inv'[i].answer)
         /\ inv'[i].answer # GENESIS_HASH )
       => (inv'[i].resolved = inv'[i].answer
             /\ latestContentHash' = inv'[i].answer)]_vars

\* C10 witness: the ledger answered H3 to a submission that found the cache
\* empty; H3 is its parent and the cache holds H3.
C10_Witness ==
  \E i \in Inv :
    /\ inv[i].pc = "submit"
    /\ inv[i].queried = 1 /\ inv[i].answer = H3
    /\ inv[i].call.parent = H3
    /\ inv[i].wroteLatest /\ latestContentHash = H3

\* getLatestBlockHash has answered the invocation in slot i (the resolver
\* found no previousBlock and an empty cache, asked the ledger and resumed).
LedgerAnswered(i) ==
  /\ inv[i].queried > 0
  /\ inv[i].pc \notin {"idle", "latest"}
  /\ inv[i].result.error # "getLatestBlockHash failed"

\* C11: when previousBlock is omitted, the cache was empty and
\* getLatestBlockHash answers nothing or the all-zero digest,
\* resolvePreviousBlock returns exactly GENESIS_HASH ("0x" and 64 zeros): it
\* is the parent passed to chain.submitBlock, and the resolver stores nothing.
C11_GenesisWhenNoBlocks ==
  \A i \in Inv :
    (LedgerAnswered(i) /\ inv[i].answer \in {Null, GENESIS_HASH})
    => /\ inv[i].resolved = GENESIS_HASH
       /\ Chars(inv[i].resolved) = <<"0", "x">> \o Rep("0", HexLen)
       /\ ~inv[i].wroteLatest
       /\ inv[i].submits > 0 => inv[i].call.parent = GENESIS_HASH

\* C11 witness: a submission without previousBlock found the cache empty, the
\* ledger answered nothing, and it has been confirmed with parent
\* GENESIS_HASH.
C11_Witness ==
  \E i \in Inv :
    /\ Succeeded(i)
    /\ ~Truthy(inv[i].args.previousBlock)
    /\ inv[i].queried = 1 /\ inv[i].answer = Null
    /\ inv[i].resolved = GENESIS_HASH
    /\ inv[i].result.previousBlock = GENESIS_HASH

\* resolvePreviousBlock has returned to the invocation in slot i, which
\* supplied no previousBlock.
AutoResolved(i) ==
  /\ inv[i].pc # "idle"
  /\ ~Truthy(inv[i].args.previousBlock)
  /\ inv[i].resolved # Null

\* No submission of slots i..j-1 has been confirmed: with the invocations
\* logged in the order they ran, none has completed between the resolver
\* call of slot i and that of slot j.
NoneCompletedBetween(i, j) == \A k \in i..(j - 1) : ~Succeeded(k)

\* C12 as claimed: two resolver calls without previousBlock, with no
\* submission of this process completing between them, return the same
\* digest, whatever the cache held and whatever the ledger answers.
C12_ResolveTwiceSame ==
  \A i, j \in Inv :
    (i < j /\ AutoResolved(i) /\ AutoResolved(j) /\ NoneCompletedBetween(i, j))
    => inv[j].resolved = inv[i].resolved

\* C12 amended: the two calls return the same digest, except when the
\* first found the cache empty and the ledger without blocks (it returned
\* GENESIS_HASH and stored nothing): then the later call returns GENESIS_HASH
\* again or a non-genesis digest that getLatestBlockHash has answered since.
C12_ResolveTwiceAmended ==
  \A i, j \in Inv :
    (i < j /\ AutoResolved(i) /\ AutoResolved(j) /\ NoneCompletedBetween(i, j))
    => \/ inv[j].resolved = inv[i].resolved
       \/ /\ inv[i].resolved = GENESIS_HASH
          /\ inv[i].queried = 1
          /\ \E k \in (i + 1)..j :
               /\ inv[k].queried = 1
               /\ Truthy(inv[k].answer) /\ inv[k].answer # GENESIS_HASH
               /\ inv[j].resolved = inv[k].answer

\* C12 witness: the first call took H3 from the ledger and its submission
\* failed at chain.submitBlock; the second call returned H3 from the cache
\* without asking the ledger.
C12_Witness ==
  \E i, j \in Inv :
    /\ i < j
    /\ AutoResolved(i) /\ inv[i].queried = 1 /\ inv[i].answer = H3
    /\ Failed(i) /\ inv[i].result.error = "submitBlock failed"
    /\ AutoResolved(j) /\ inv[j].queried = 0
    /\ inv[j].resolved = H3 /\ inv[i].resolved = H3

\* An argument of the submission in slot i is malformed: blockId, contentHash,
\* or a previousBlock that was supplied (anything but undefined, the empty
\* string included).
Malformed(i) ==
  \/ ~validateBlockId(inv[i].args.blockId)
  \/ ~validateBytes32(inv[i].args.contentHash)
  \/ (inv[i].args.previousBlock # Null /\ ~validateBytes32(inv[i].args.previousBlock))

\* C13: a submission with a malformed blockId, contentHash or supplied
\* previousBlock (the empty string included) has ended in an error envelope
\* and has read no file, asked the ledger nothing, uploaded nothing and
\* called chain.submitBlock not once.
C13_MalformedRejectedFirst ==
  \A i \in Inv :
    (inv[i].pc # "idle" /\ Malformed(i))
    => /\ Failed(i) /\ inv[i].result.error # ""
       /\ inv[i].reads = {}
       /\ inv[i].queried = 0
       /\ inv[i].uploads = 0
       /\ inv[i].submits = 0

\* The materialization of a FileInput of the submission in slot i has failed:
\* processSingleFile threw for it, or its readFile was rejected.
FileFailed(i) ==
  \/ \E o \in Outcomes(i) : o.kind = "throw"
  \/ inv[i].result.error = "read failed"

\* C14: when the materialization of one FileInput fails, the submission
\* fails as a whole: it never gets past the await of the files, its envelope
\* is an error, it has made no ipfs.upload call, no chain.submitBlock call and
\* no getLatestBlockHash call, and the cache holds what it held when the
\* invocation started.
C14_FileFailureAbortsAll ==
  \A i \in Inv :
    FileFailed(i)
    => /\ inv[i].pc \in {"files", "done"}
       /\ Done(i) => (Failed(i) /\ inv[i].result.error # "")
       /\ inv[i].uploads = 0
       /\ inv[i].submits = 0
       /\ inv[i].queried = 0
       /\ ~inv[i].wroteOwn /\ ~inv[i].wroteLatest
       /\ latestContentHash = entryCache

\* C14 witness: a submission with content and two files, one outside the
\* allowed directory and one readable, has failed while the cache holds H1,
\* as it did when the invocation started.
C14_Witness ==
  \E i \in Inv :
    /\ Failed(i)
    /\ inv[i].result.error = "File path outside allowed directory"
    /\ Len(inv[i].processed) = 2
    /\ inv[i].reads # {}
    /\ Truthy(inv[i].args.content)
    /\ inv[i].uploads = 0 /\ inv[i].submits = 0
    /\ latestContentHash = H1 /\ entryCache = H1

\* C15: a submission without inline content (content undefined or empty)
\* has made no ipfs.upload call, also when files were supplied and
\* materialized; its chain.submitBlock call carries no ipfsCID and its
\* success envelope reports none.
C15_NoContentNoUpload ==
  \A i \in Inv :
    (inv[i].pc # "idle" /\ ~Truthy(inv[i].args.content))
    => /\ inv[i].uploads = 0
       /\ inv[i].bundle = NoFiles
       /\ inv[i].submits > 0 => inv[i].call.cid = Null
       /\ Succeeded(i) => inv[i].result.ipfsCID = Null

\* C15 witness: a submission with a file read from the allowed directory and
\* no content has been confirmed without an upload and without an ipfsCID.
C15_Witness ==
  \E i \in Inv :
    /\ Succeeded(i)
    /\ inv[i].args.content = Null
    /\ inv[i].args.files.given /\ inv[i].reads = {"/w/f"}
    /\ inv[i].uploads = 0
    /\ inv[i].submits = 1 /\ inv[i].call.cid = Null

\* C16: in the step in which a submission completes successfully (tx.wait()
\* has resolved and the handler returns the success envelope), the cache
\* becomes that submission's contentHash, whether its parent was supplied or
\* resolved, and whatever other invocations are in flight.
C16_CacheIsOwnHashOnSuccess ==
  [][\A i \in Inv :
       (inv[i].pc = "wait" /\ inv'[i].pc = "done" /\ inv'[i].result.success)
       => /\ latestContentHash' = inv[i].args.contentHash
          /\ inv'[i].result.contentHash = latestContentHash']_vars

\* C16 witness: a submission of H1 with the supplied parent H3 was confirmed,
\* and then a submission of H2 without previousBlock, after which the cache
\* holds H2.
C16_Witness ==
  \E i, j \in Inv :
    /\ Succeeded(i) /\ inv[i].args.previousBlock = H3
    /\ inv[i].args.contentHash = H1
    /\ Succeeded(j) /\ ~Truthy(inv[j].args.previousBlock)
    /\ inv[j].args.contentHash = H2 /\ inv[j].resolved = H1
    /\ latestContentHash = H2 /\ lastAccepted = H2

\* The invocation in slot i is a finished audit.
Audited(i) == inv[i].tool = "yamo_audit_block" /\ inv[i].pc = "done"

\* h is the SHA-256 digest of text, its hex digits in either case.
IsDigestOf(h, text) ==
  validateBytes32(h) /\ LowerCase(h) = Intern(<<"0", "x">> \o digestHex(text))

\* The audit in slot j ran after the submission in slot k was confirmed, and
\* chain.getBlock answered with the block of that submission: its blockId,
\* its digest (in the spelling of the ledger client) and its ipfsCID.
AuditOf(j, k) ==
  /\ k < j
  /\ inv[k].tool = "yamo_submit_block" /\ Succeeded(k)
  /\ Audited(j)
  /\ inv[j].args.blockId = inv[k].call.blockId
  /\ inv[j].block.found
  /\ LowerCase(inv[j].block.contentHash) = LowerCase(inv[k].call.contentHash)
  /\ inv[j].block.ipfsCID = inv[k].call.cid

\* C17: after a confirmed submission of content C with a contentHash that is
\* the SHA-256 digest of C, in lower or in upper case, an audit of that block
\* to which the Content Store returns C reports verified = true and a
\* computedHash equal to the on-chain hash.
C17_RoundTripVerified ==
  \A j, k \in Inv :
    ( /\ AuditOf(j, k)
      /\ Truthy(inv[k].args.content)
      /\ IsDigestOf(inv[k].args.contentHash, inv[k].args.content)
      /\ inv[j].audit.contentPreview = inv[k].args.content )
    => /\ inv[j].audit.verified = "true"
       /\ inv[j].audit.computedHash = inv[j].audit.onChainHash

\* C18: an audit of a block that exists and has no ipfsCID has returned
\* verified = null in a non-error envelope with the on-chain hash, and has
\* made no Content Store call.
C18_NoContentRefUnknown ==
  \A i \in Inv :
    (Audited(i) /\ inv[i].block.found /\ ~Truthy(inv[i].block.ipfsCID))
    => /\ inv[i].audit.verified = Null
       /\ ~inv[i].audit.isError
       /\ inv[i].audit.onChainHash = inv[i].block.contentHash
       /\ inv[i].downloads = 0 /\ inv[i].uploads = 0

\* C18 witness: a submission without content was confirmed, and the audit of
\* its block (H1, no ipfsCID) has returned verified = null.
C18_Witness ==
  \E j, k \in Inv :
    /\ AuditOf(j, k)
    /\ inv[k].call.cid = Null /\ inv[j].block.contentHash = H1
    /\ inv[j].audit.verified = Null /\ inv[j].audit.onChainHash = H1
    /\ inv[j].downloads = 0

\* C19: an audit of a blockId that chain.getBlock does not find has returned
\* verified = false classified as not found (errorType block_not_found), and
\* has made no ipfs.downloadBundle call.
C19_AbsentBlockNotFound ==
  \A i \in Inv :
    (Audited(i) /\ inv[i].result.error # "getBlock failed" /\ ~inv[i].block.found)
    => /\ inv[i].audit.verified = "false"
       /\ inv[i].audit.errorType = "block_not_found"
       /\ inv[i].downloads = 0

\* C20: an audit whose block has an ipfsCID and whose download succeeded
\* reports as computedHash "0x" and the SHA-256 digest of bundle.block, and
\* verified = true exactly when computedHash equals the on-chain contentHash,
\* verified = false otherwise.
C20_VerifiedIffHashesEqual ==
  \A i \in Inv :
    (Audited(i) /\ inv[i].downloads > 0 /\ inv[i].audit.contentPreview # Absent)
    => /\ inv[i].audit.computedHash
            = Intern(<<"0", "x">> \o digestHex(inv[i].audit.contentPreview))
       /\ inv[i].audit.onChainHash = inv[i].block.contentHash
       /\ inv[i].audit.verified \in {"true", "false"}
       /\ inv[i].audit.verified = "true"
            <=> inv[i].audit.computedHash = inv[i].block.contentHash

\* C20 witness: one audit has found the payload Body under the on-chain hash
\* H1 and reported verified = true, another has found an altered payload
\* under H1 and reported verified = false.
C20_Witness ==
  \E i, j \in Inv :
    /\ Audited(i) /\ inv[i].block.contentHash = H1
    /\ inv[i].audit.contentPreview = Body /\ inv[i].audit.verified = "true"
    /\ Audited(j) /\ inv[j].block.contentHash = H1
    /\ inv[j].audit.contentPreview = Altered /\ inv[j].audit.verified = "false"
    /\ inv[j].audit.computedHash = H3

\* The invocation in slot i is an audit whose ipfs.downloadBundle call was
\* rejected.
DownloadRejected(i) ==
  Audited(i) /\ inv[i].downloads > 0 /\ inv[i].audit.contentPreview = Absent

\* The store reports that the bundle is encrypted.
ReportsEncrypted(errorMessage) == includes(errorMessage, "encrypted")

\* The store reports that decryption rejected the key.
ReportsDecryptionFailure(errorMessage) ==
  includes(errorMessage, "Decryption failed") \/ includes(errorMessage, "decrypt")

\* The class the claim gives a failed download.
ErrorClass(errorMessage, encryptionKey) ==
  IF ReportsEncrypted(errorMessage) /\ ~Truthy(encryptionKey) THEN "missing_key"
  ELSE IF Truthy(encryptionKey) /\ ReportsDecryptionFailure(errorMessage)
  THEN "decryption_failed"
  ELSE "unknown"

\* C21: an audit whose download or decryption failed has returned
\* verified = false with the class missing_key exactly when the store
\* reported an encrypted bundle and no key was given, decryption_failed
\* exactly when a key was given and decryption rejected it, and unknown in
\* every other case.
C21_DownloadFailureClassified ==
  \A i \in Inv :
    DownloadRejected(i)
    => /\ inv[i].audit.verified = "false"
       /\ inv[i].audit.isError
       /\ inv[i].audit.errorType = ErrorClass(inv[i].audit.error, inv[i].key)

\* C22: no step of an audit, whatever its outcome, changes the continuity
\* cache, and an audit makes no chain.submitBlock call and no ipfs.upload
\* call.
C22_AuditReadOnly ==
  [][\A i \in Inv :
       (inv'[i] # inv[i] /\ inv'[i].tool = "yamo_audit_block")
       => /\ latestContentHash' = latestContentHash
          /\ lastAccepted' = lastAccepted
          /\ inv'[i].submits = 0 /\ inv'[i].uploads = 0
          /\ inv'[i].queried = 0
          /\ ~inv'[i].wroteOwn /\ ~inv'[i].wroteLatest]_vars

\* C22 witness: after a confirmed submission of H1, an audit has downloaded
\* an altered payload and reported verified = false; the cache still holds
\* H1.
C22_Witness ==
  \E j, k \in Inv :
    /\ k < j /\ Succeeded(k) /\ inv[k].args.contentHash = H1
    /\ Audited(j) /\ inv[j].downloads = 1
    /\ inv[j].audit.verified = "false" /\ inv[j].audit.computedHash = H3
    /\ latestContentHash = H1

\* The digest handleVerifyBlock is to pass on: the supplied one, with "0x"
\* prepended unless it starts with "0x".
Normalized(contentHash) ==
  IF startsWith(contentHash, "0x") THEN Chars(contentHash)
  ELSE <<"0", "x">> \o Chars(contentHash)

\* C23: every step of a verify invocation leaves the cache unchanged and
\* makes no external call but one contract.verifyBlock(blockId, d), d being
\* the supplied digest with "0x" prepended if it does not start with "0x";
\* when that call has answered, the text returned is VERIFIED exactly when
\* the answer is true, and FAILED otherwise.
C23_VerifySurfacesLedgerAnswer ==
  [][\A i \in Inv :
       (inv'[i] # inv[i] /\ inv'[i].tool = "yamo_verify_block"
          /\ inv'[i].args.contentHash # Null)
       => /\ latestContentHash' = latestContentHash
          /\ inv'[i].vcalls = 1
          /\ inv'[i].vcall.blockId = inv'[i].args.blockId
          /\ Chars(inv'[i].vcall.hashBytes) = Normalized(inv'[i].args.contentHash)
          /\ inv'[i].lookups = 0 /\ inv'[i].downloads = 0 /\ inv'[i].queried = 0
          /\ inv'[i].uploads = 0 /\ inv'[i].submits = 0 /\ inv'[i].reads = {}
          /\ inv'[i].vcall.answer = "true" => inv'[i].reply.text = "VERIFIED"
          /\ inv'[i].vcall.answer = "false" => inv'[i].reply.text = "FAILED"
          /\ inv'[i].reply.text = "VERIFIED" => inv'[i].vcall.answer = "true"
          /\ ~inv'[i].reply.isError]_vars

\* C23 witness: after a confirmed submission of H1, a verify request with
\* the digest of H1 without "0x" has asked the ledger about H1 and returned
\* VERIFIED; the cache holds H1.
C23_Witness ==
  \E i \in Inv :
    /\ inv[i].tool = "yamo_verify_block" /\ inv[i].pc = "done"
    /\ inv[i].args.contentHash = Bare
    /\ inv[i].vcall.hashBytes = H1 /\ inv[i].vcall.answer = "true"
    /\ inv[i].reply.text = "VERIFIED"
    /\ latestContentHash = H1

\* What the envelope returned by the invocation in slot i carries: isError,
\* the success flag, the error message and the error classification (Absent
\* when the JSON text has no such field).  A handler that threw was answered
\* by the catch of the CallToolRequest handler with {success: false, error,
\* tool, timestamp}.
Envelope(i) ==
  IF inv[i].audit # NoAudit
  THEN [isError |-> inv[i].audit.isError, success |-> Absent,
        error |-> inv[i].audit.error, class |-> inv[i].audit.errorType]
  ELSE IF inv[i].reply # NoReply
  THEN [isError |-> inv[i].reply.isError, success |-> inv[i].reply.success,
        error |-> inv[i].reply.error, class |-> Absent]
  ELSE [isError |-> ~inv[i].result.success,
        success |-> IF inv[i].result.success THEN "true" ELSE "false",
        error |-> IF inv[i].result.error = "" THEN Absent ELSE inv[i].result.error,
        class |-> Absent]

\* C24: every invocation that failed (validation error, security rejection,
\* not found, collaborator failure, unknown tool) has returned an error
\* envelope that carries a success flag, an error message and an error
\* classification.
C24_ErrorsStructured ==
  \A i \in Inv :
    (Done(i) /\ Envelope(i).isError)
    => /\ Envelope(i).success = "false"
       /\ Envelope(i).error # Absent
       /\ Envelope(i).class # Absent

\* C25: a submit invocation makes at most one ipfs.upload call, at most one
\* chain.submitBlock call and at most one getLatestBlockHash call; once it
\* has failed it holds one error envelope and does nothing more until the
\* envelope is sent.
C25_NoRetry ==
  [][\A i \in Inv :
       /\ inv'[i].uploads <= 1 /\ inv'[i].submits <= 1 /\ inv'[i].queried <= 1
       /\ (inv[i].tool = "yamo_submit_block" /\ Failed(i))
          => /\ inv[i].result.error # ""
             /\ inv'[i] = inv[i] \/ inv'[i] = IdleSlot]_vars

\* C25 witness: a submission with content has failed at tx.wait() after one
\* upload and one chain.submitBlock call.
C25_Witness ==
  \E i \in Inv :
    /\ inv[i].tool = "yamo_submit_block" /\ Failed(i)
    /\ inv[i].result.error = "transaction failed"
    /\ inv[i].uploads = 1 /\ inv[i].submits = 1

\* '0x' followed by exactly 64 hexadecimal characters of either case
WellFormedDigest(d) ==
  /\ d # Null
  /\ startsWith(d, "0x")
  /\ LET digits == SubSeq(Chars(d), 3, Len(Chars(d)))
     IN  /\ Len(digits) = HexLen
         /\ \A k \in 1..Len(digits) : digits[k] \in HexChars

\* C26: validateBytes32 returns for every string that is '0x' followed by
\* exactly 64 hexadecimal characters of either case and throws for every
\* other input: an algorithm prefix, fewer or more than 64 hex characters,
\* no 0x prefix, a character that is not a hex digit.
C26_Bytes32ExactShape ==
  \A i \in Inv :
    (inv[i].pc = "done" /\ inv[i].tool = "validateBytes32")
      => (inv[i].result.success <=> WellFormedDigest(inv[i].args.contentHash))

C26_Witness ==
  \E i, j \in Inv :
    /\ inv[i].tool = "validateBytes32" /\ inv[j].tool = "validateBytes32"
    /\ inv[i].args.contentHash = "0xaB*32" /\ inv[i].result.success
    /\ inv[j].args.contentHash = "0xa*65" /\ ~inv[j].result.success

\* The number of non-empty segments of blockId between its '_' separators.
Segments(blockId) ==
  LET v == Chars(blockId)
  IN  Cardinality({k \in 1..Len(v) : v[k] # "_" /\ (k = 1 \/ v[k - 1] = "_")})

\* C27: validateBlockId throws for the empty blockId and for every blockId
\* with fewer than two non-empty segments between '_' separators ('claude',
\* '_', 'a_', '_b'), and returns for every blockId with at least two.
C27_BlockIdTwoSegments ==
  \A i \in Inv :
    (inv[i].pc = "done" /\ inv[i].tool = "validateBlockId")
      => (inv[i].result.success
            <=> (inv[i].args.blockId # Null /\ Segments(inv[i].args.blockId) >= 2))

\* The invocation in slot i has passed its files to ipfs.upload.
PassedFiles(i) == inv[i].uploads > 0 /\ inv[i].args.files.given

\* C28: a FileInput whose content is not a string, or is a string at which
\* no filesystem entry exists, is materialized unchanged (same name, same
\* content), and no file is read for it.
C28_LiteralUnchanged ==
  \A i \in Inv : \A k \in 1..Len(inv[i].processed) :
    LET file == inv[i].args.files.items[k]
    IN  (file.content = NotAString \/ ~Known(file.content))
          => /\ inv[i].processed[k].kind = "literal"
             /\ inv[i].processed[k].path = Null
             /\ Materialized(inv[i].processed[k]) = file
             /\ PassedFiles(i) => inv[i].bundle.items[k] = file

C28_Witness ==
  \E i \in Inv :
    /\ PassedFiles(i) /\ inv[i].confirmed
    /\ inv[i].args.files.items = <<FileInput(FName, "/w/n"), FileInput(GName, "/w/f")>>
    /\ inv[i].bundle.items[1] = FileInput(FName, "/w/n")
    /\ inv[i].reads = {"/w/f"}

\* An existing regular file that is not a symbolic link and lies in the
\* allowed root.
RegularInRoot(p) ==
  /\ p # NotAString
  /\ existsSync(p)
  /\ ~isSymbolicLink(p)
  /\ Lookup(p).text # Null
  /\ InsideRoot(realpathSync(p))

\* C29: the files passed to ipfs.upload have the names of the input list in
\* its order, and a FileInput whose content names an existing regular file
\* in the allowed root that is not a symbolic link is passed with the text
\* of that file as content.
C29_FileReadInOrder ==
  \A i \in Inv :
    PassedFiles(i) =>
      /\ Len(inv[i].bundle.items) = Len(inv[i].args.files.items)
      /\ \A k \in 1..Len(inv[i].args.files.items) :
           LET file == inv[i].args.files.items[k]
           IN  /\ inv[i].bundle.items[k].name = file.name
               /\ RegularInRoot(file.content)
                    => inv[i].bundle.items[k].content = Lookup(file.content).text

C29_Witness ==
  \E i \in Inv :
    /\ PassedFiles(i) /\ inv[i].confirmed
    /\ inv[i].args.files.items = <<FileInput(GName, "/w/t/f"), FileInput(FName, "/w/f")>>
    /\ inv[i].bundle.items = <<FileInput(GName, "tin"), FileInput(FName, "in")>>

\* '0x' followed by exactly 40 hexadecimal characters
WellFormedAddress(a) ==
  /\ a # Null
  /\ startsWith(a, "0x")
  /\ LET digits == SubSeq(Chars(a), 3, Len(Chars(a)))
     IN  /\ Len(digits) = AddrLen
         /\ \A k \in 1..Len(digits) : digits[k] \in HexChars

\* C30: when RPC_URL, CONTRACT_ADDRESS or PRIVATE_KEY is absent, or the
\* contract address is not '0x' plus 40 hex characters, the constructor
\* throws and no request handler has been registered.
C30_StartupRequiresConfig ==
  \A i \in Inv :
    (inv[i].pc = "done" /\ inv[i].tool = "constructor")
      => (( \/ \E v \in DOMAIN inv[i].env : inv[i].env[v] = Null
            \/ ~WellFormedAddress(inv[i].env.CONTRACT_ADDRESS) )
          => (inv[i].result.error # "" /\ ~inv[i].handlers))

C30_Witness ==
  \E i, j \in Inv :
    /\ inv[i].tool = "constructor" /\ inv[j].tool = "constructor"
    /\ inv[i].env = [CONTRACT_ADDRESS |-> "0xa*40", RPC_URL |-> "rpc", PRIVATE_KEY |-> Null]
    /\ inv[i].result.error = "Missing required environment variables"
    /\ ~inv[i].handlers
    /\ inv[j].env = [CONTRACT_ADDRESS |-> "0xa*41", RPC_URL |-> "rpc", PRIVATE_KEY |-> "k"]
    /\ inv[j].result.error = "CONTRACT_ADDRESS must be a valid Ethereum address"
    /\ ~inv[j].handlers

C32_ResolutionNotExclusive ==
  [][\A i \in Inv :
       /\ ( /\ inv[i].pc = "idle" /\ inv'[i].pc # "idle"
            /\ latestContentHash = Null
            /\ ~Malformed(i)' /\ ~Truthy(inv'[i].args.previousBlock)
            /\ ~inv'[i].args.files.given )
           => (inv'[i].pc = "latest" /\ inv'[i].queried = 1)
       /\ ( /\ inv[i].pc = "latest" /\ inv'[i].pc # "latest"
            /\ inv'[i].result.error # "getLatestBlockHash failed" )
           => /\ inv'[i].resolved # Null
              /\ inv'[i].result.error = ""
              /\ inv'[i].pc \in {"upload", "submit"}]_vars

\* C32 witness: two submissions have both been answered by the ledger query
\* (each stored the answer, so each began while the cache was empty) and both
\* are in chain.submitBlock.
C32_Witness ==
  \E i, j \in Inv :
    /\ i # j
    /\ inv[i].pc = "submit" /\ inv[j].pc = "submit"
    /\ inv[i].queried = 1 /\ inv[j].queried = 1
    /\ inv[i].wroteLatest /\ inv[j].wroteLatest
    /\ inv[i].call.parent = H3 /\ inv[j].call.parent = H3

\* The slot holds the one envelope its handler or the dispatcher returned.
OneEnvelope(i) ==
  Cardinality({e \in {"result", "audit", "reply"} :
                 \/ e = "result" /\ inv[i].result # NoResult
                 \/ e = "audit" /\ inv[i].audit # NoAudit
                 \/ e = "reply" /\ inv[i].reply # NoReply}) = 1

\* C33: every tool invocation returns one response envelope in the end, and
\* nothing more after it, when every external call it awaits returns or
\* fails in the end.
C33_AlwaysResponds ==
  /\ \A i \in Inv : (inv[i].pc # "idle") ~> (Done(i) /\ OneEnvelope(i))
  /\ [][\A i \in Inv : Done(i) => (inv'[i] = inv[i] \/ inv'[i] = IdleSlot)]_vars
  /\ [](\A i \in Inv : Done(i) => OneEnvelope(i))

\* C33 witness: an audit has returned its envelope while a submission that
\* arrived before it is still waiting for its confirmation.
C33_Witness ==
  \E i, j \in Inv :
    /\ Done(i) /\ inv[i].tool = "yamo_audit_block" /\ inv[i].audit.verified = "true"
    /\ inv[j].tool = "yamo_submit_block" /\ inv[j].pc = "wait"

\* The submission in slot i is waiting for an external call.
Awaiting(i) ==
  /\ inv[i].tool = "yamo_submit_block"
  /\ inv[i].pc \in {"files", "latest", "upload", "submit", "wait"}

\* C34: while the invocation in the first slot waits for an external call
\* that never returns, every invocation issued meanwhile (submit, audit,
\* verify, get) still returns; and a submission that is waiting changes
\* nothing: when the cache changes during its wait, another invocation has
\* written it.
C34_NoLockHeld ==
  /\ \A i \in Inv \ {1} : (inv[i].pc # "idle") ~> Done(i)
  /\ [][\A i \in Inv :
          (Awaiting(i) /\ inv'[i] = inv[i] /\ latestContentHash' # latestContentHash)
            => \E j \in Inv \ {i} :
                 /\ inv'[j] # inv[j]
                 /\ \/ inv'[j].wroteOwn /\ latestContentHash' = inv'[j].args.contentHash
                    \/ inv'[j].wroteLatest /\ latestContentHash' = inv'[j].answer]_vars

\* C34 witness: a submission that arrived later has succeeded and written
\* the cache while the first one is still waiting for its confirmation.
C34_Witness ==
  \E j \in Inv \ {1} :
    /\ inv[1].tool = "yamo_submit_block" /\ inv[1].pc = "wait"
    /\ inv[j].tool = "yamo_submit_block" /\ Done(j) /\ inv[j].result.success
    /\ latestContentHash = inv[j].args.contentHash
    /\ ~inv[1].wroteOwn

\* The terminal outcomes of an audit that the envelope in slot i shows.
AuditOutcomes(i) ==
  LET a == inv[i].audit
  IN  {o \in {"absent", "no reference", "compared", "download failed"} :
         \/ o = "absent" /\ a.verified = "false" /\ a.errorType = Absent
                         /\ a.computedHash = Absent /\ a.error # Absent
         \/ o = "no reference" /\ a.verified = Null
         \/ o = "compared" /\ a.verified \in {"true", "false"}
                           /\ a.computedHash # Absent
         \/ o = "download failed" /\ a.verified = "false" /\ a.errorType # Absent}

\* C35: every audit invocation ends in exactly one of four outcomes: block
\* absent (verified false), no content reference (verified unknown),
\* comparison done (verified true or false with a computed hash), download
\* or decryption failure (verified false with an error class); also when
\* chain.getBlock itself fails.
C35_AuditFourOutcomes ==
  \A i \in Inv :
    (Done(i) /\ inv[i].tool = "yamo_audit_block")
      => Cardinality(AuditOutcomes(i)) = 1

\* The path p has a symbolic link as one of its components: p is a link, or
\* a link is a directory on the way to p.
ThroughLink(p) ==
  \E l \in Links :
    \/ l = p
    \/ /\ startsWith(p, l)
       /\ Len(Chars(l)) < Len(Chars(p))
       /\ Chars(p)[Len(Chars(l)) + 1] = "/"

\* C36: no file is read through a symbolic link at any component of the
\* supplied path: an existing path whose last component or whose
\* intermediate directory is a symbolic link is rejected, not read.
C36_NoLinkAtAnyComponent ==
  \A i \in Inv : \A o \in Outcomes(i) :
    (o.content # NotAString /\ ThroughLink(o.content))
      => /\ o.kind # "read"
         /\ existsSync(o.content) => o.kind = "throw"

LookupTools == {"yamo_get_block", "yamo_get_latest_block"}

\* The envelope of the lookup in slot (a record) tells what the ledger
\* answered: success with the block's fields (an empty content reference
\* shown as null) when it answered a block, else the error notFound.
Surfaces(slot, notFound) ==
  IF slot.block.found
  THEN /\ slot.reply.success = "true" /\ ~slot.reply.isError
       /\ slot.reply.block.found
       /\ slot.reply.block.contentHash = slot.block.contentHash
       /\ slot.reply.block.ipfsCID
            = (IF slot.block.ipfsCID = "" THEN Null ELSE slot.block.ipfsCID)
  ELSE /\ slot.reply.success = "false" /\ slot.reply.isError
       /\ slot.reply.error = notFound
       /\ slot.reply.block = NoBlock

\* A step in which the ledger answers the lookup in slot i.
LookupAnswered(i) ==
  /\ inv[i].pc = "lookup" /\ inv[i].tool \in LookupTools
  /\ inv'[i].pc = "done" /\ inv'[i].result.error = ""

\* C37 as stated: get-by-id answers success = true with the block's fields
\* exactly when chain.getBlock returns a block and success = false with the
\* error 'Block not found on-chain' when it returns none; get-latest does the
\* same for chain.getLatestBlock; neither changes the continuity cache.
C37_LookupsSurfaceLedger ==
  [][\A i \in Inv :
       /\ (inv'[i].tool \in LookupTools /\ inv'[i] # inv[i])
            => latestContentHash' = latestContentHash
       /\ LookupAnswered(i) => Surfaces(inv'[i], "Block not found on-chain")]_vars

\* C37 amended: as stated, but the error of get-latest, when
\* chain.getLatestBlock returns none, is 'No blocks found on-chain'.
C37_LookupsAmended ==
  [][\A i \in Inv :
       /\ (inv'[i].tool \in LookupTools /\ inv'[i] # inv[i])
            => latestContentHash' = latestContentHash
       /\ LookupAnswered(i)
            => Surfaces(inv'[i], IF inv'[i].tool = "yamo_get_block"
                                 THEN "Block not found on-chain"
                                 ELSE "No blocks found on-chain")]_vars

\* C37 witness: get-latest has answered that the ledger has no block, while
\* the cache holds the contentHash of an earlier submission.
C37_Witness ==
  \E i \in Inv :
    /\ Done(i) /\ inv[i].tool = "yamo_get_latest_block"
    /\ ~inv[i].block.found
    /\ inv[i].reply.success = "false"
    /\ inv[i].reply.error = "No blocks found on-chain"
    /\ latestContentHash = H1

\* The submissions in slots i and j have both succeeded, both without a
\* previousBlock, with different contentHashes.
AutoChainedPair(i, j) ==
  /\ i # j
  /\ Succeeded(i) /\ Succeeded(j)
  /\ ~Truthy(inv[i].args.previousBlock) /\ ~Truthy(inv[j].args.previousBlock)
  /\ inv[i].args.contentHash # inv[j].args.contentHash

\* C38 as stated: among the successful submissions that omitted
\* previousBlock and declared different contentHashes, no two recorded the
\* same parent digest, under every interleaving of overlapping invocations.
C38_LinearChain ==
  \A i, j \in Inv :
    AutoChainedPair(i, j) => inv[i].call.parent # inv[j].call.parent

\* The content store holds a bundle that the submission in slot i uploaded:
\* its ipfs.upload call has returned a content reference.
HoldsBundle(i) == inv[i].tool = "yamo_submit_block" /\ inv[i].call.cid # Null

\* C39 as stated: after a submit invocation that ends in an error the
\* content store holds no bundle uploaded by it; a bundle is uploaded only
\* for submissions whose ledger submission is then accepted.
C39_NoOrphanBundle ==
  \A i \in Inv : (Failed(i) /\ inv[i].tool = "yamo_submit_block") => ~HoldsBundle(i)

\* C40: the file whose bytes processSingleFile reads is at the canonical
\* location that validateFileSecurity checked, also when another actor
\* changes the file system between the check and the second realpath
\* resolution and read; so what is passed on is the text of the checked
\* file.
C40_ReadsWhatWasChecked ==
  \A i \in Inv : \A k \in 1..Len(inv[i].processed) :
    inv[i].processed[k].kind = "read"
      => /\ inv[i].processed[k].path = realpathSync(inv[i].processed[k].content)
         /\ PassedFiles(i)
              => inv[i].bundle.items[k].content
                   = FileText(realpathSync(inv[i].processed[k].content))

====
